---- MODULE Spec2Model ----
(***************************************************************************)
(* A state-machine model of the tilt-controlled Mario game of code.py:     *)
(* IMUController, Mario, Enemy, Camera, Level and the MarioGame session    *)
(* (update / reset_level / run).                                           *)
(*                                                                         *)
(* Numbers.  The program computes positions and velocities in floating     *)
(* point.  Every position, velocity and sensor reading is modelled here as *)
(* an integer number of thousandths (Scale == 1000): 0.6 is 600, 105 is    *)
(* 105000.  Sums and comparisons are then exact; the three products of the *)
(* code (tilt * speed, vel_x * 0.8, (target - x) * 0.2) and the one        *)
(* quotient (the tilt normalisation) are rounded to the nearest            *)
(* thousandth.  IEEE rounding error below a thousandth is not modelled.    *)
(***************************************************************************)
EXTENDS Integers, Sequences, FiniteSets, TLC

\* ------------------------------------------------------------------------
\* Fixed-point arithmetic
\* ------------------------------------------------------------------------
Scale == 10 * 10 * 10

Px(n) == n * Scale

Abs(a) == IF a < 0 THEN -a ELSE a

Min(a, b) == IF a < b THEN a ELSE b

Max(a, b) == IF a > b THEN a ELSE b

\* the least element of a non-empty set of integers: the first index of a loop
First(S) == CHOOSE i \in S : \A j \in S : i <= j

\* a / d rounded to the nearest integer (d > 0)
RoundDiv(a, d) == (2 * a + d) \div (2 * d)

\* int(v) of a Python float: truncation towards zero, in whole pixels
\* ------------------------------------------------------------------------
\* Program constants (code.py lines 40-61)
\* ------------------------------------------------------------------------
DISPLAY_WIDTH == Px(240)
DISPLAY_HEIGHT == Px(135)
GRAVITY == (6 * Scale) \div 10
JUMP_STRENGTH == Px(-10)
MOVE_SPEED == (25 * Scale) \div 10
RUN_SPEED == (45 * Scale) \div 10
GROUND_Y == Px(105)
TILT_DEADZONE == (8 * Scale) \div 10
TILT_MAX == Px(6)
MARIO_WIDTH == Px(16)
MARIO_HEIGHT == Px(16)
ENEMY_WIDTH == Px(16)
ENEMY_HEIGHT == Px(16)
BLOCK_SIZE == Px(16)
\* literals of the code that it does not name
WORLD_WIDTH == Px(2200)
LEVEL_END_X == Px(2075)
COIN_WIDTH == Px(8)
COIN_HEIGHT == Px(14)
TERMINAL_VEL == Px(10)
STOMP_BOUNCE == Px(-6)
INVINCIBLE_FRAMES == 120
VICTORY_FRAMES == 180
START_LIVES == 3
JUMP_BUFFER_FRAMES == 3
STOMP_SCORE == 100
COIN_SCORE == 200
HOLD_FRAMES == 150
MARIO_START_X == Px(40)

\* ------------------------------------------------------------------------
\* Level.create_level: the fixed world
\* ------------------------------------------------------------------------
Platform(x, y, width, height, block_type) ==
    [x |-> x, y |-> y, width |-> width, height |-> height, block_type |-> block_type]

\* range(first, stop, BLOCK_SIZE) as the sequence of its values (whole pixels)
BlockRange(first, stop) ==
    [i \in 1..((stop - first + 15) \div 16) |-> first + 16 * (i - 1)]

\* one 16x16 block at height y (whole pixels) for every x of xs
Row(xs, y, block_type) ==
    [i \in 1..Len(xs) |-> Platform(Px(xs[i]), Px(y), BLOCK_SIZE, BLOCK_SIZE, block_type)]

Staircase ==
    LET xs == BlockRange(1400, 1550)
    IN  [i \in 1..Len(xs) |->
            Platform(Px(xs[i]), GROUND_Y - ((xs[i] - 1400) \div 16) * BLOCK_SIZE,
                     BLOCK_SIZE, BLOCK_SIZE, "brick")]

Platforms ==
    Row(BlockRange(0, 2200), 120, "brick")
    \o Row(<<200, 250, 300>>, 70, "question")
    \o Row(BlockRange(400, 550), 80, "brick")
    \o Row(BlockRange(700, 800), 60, "brick")
    \o <<Platform(Px(900), Px(90), BLOCK_SIZE, 3 * BLOCK_SIZE, "pipe")>>
    \o Row(BlockRange(1100, 1250), 70, "brick")
    \o Staircase
    \o Row(BlockRange(1700, 1900), 50, "brick")
    \o <<Platform(Px(2050), Px(70), BLOCK_SIZE, 2 * BLOCK_SIZE, "pipe")>>

NumPlatforms == Len(Platforms)

EnemySpawnX == <<150, 350, 600, 950, 1200, 1500, 1800>>

\* Enemy.__init__; id is the identity of the Python object (its spawn index)
NewEnemy(id, x, y) ==
    [id |-> id, x |-> x, y |-> y, vel_x |-> Px(-1), vel_y |-> 0, alive |-> TRUE,
     on_ground |-> FALSE, sprite_frame |-> 0, frame_counter |-> 0]

LevelEnemies == [i \in 1..Len(EnemySpawnX) |-> NewEnemy(i, Px(EnemySpawnX[i]), GROUND_Y)]

CoinSpawn == <<<<225, 50>>, <<275, 50>>, <<475, 50>>, <<525, 50>>,
               <<750, 30>>, <<1175, 50>>, <<1450, 30>>, <<1750, 30>>>>

LevelCoins ==
    [i \in 1..Len(CoinSpawn) |->
        [x |-> Px(CoinSpawn[i][1]), y |-> Px(CoinSpawn[i][2]), collected |-> FALSE]]

\* check_collision: AABB overlap
check_collision(x1, y1, w1, h1, x2, y2, w2, h2) ==
    /\ x1 < x2 + w2
    /\ x1 + w1 > x2
    /\ y1 < y2 + h2
    /\ y1 + h1 > y2

\* ------------------------------------------------------------------------
\* Camera
\* ------------------------------------------------------------------------
NewCamera == [x |-> 0, target_x |-> 0]

CameraUpdate_Unclamped(cam, mario_x) ==
    LET t0 == mario_x - Px(240 \div 3)
    IN  [x |-> cam.x + RoundDiv((t0 - cam.x) * 2, 10), target_x |-> t0]

CameraUpdate_Overshoots(cam, mario_x) ==
    LET t0 == mario_x - Px(240 \div 3)
        t1 == Max(0, Min(t0, WORLD_WIDTH - DISPLAY_WIDTH))
    IN  [x |-> cam.x + RoundDiv((t1 - cam.x) * 12, 10), target_x |-> t1]

\* Camera.update(mario_x); smoothing is 0.2
CameraUpdate(cam, mario_x) ==
    LET t0 == mario_x - Px(240 \div 3)
        t1 == Max(0, Min(t0, WORLD_WIDTH - DISPLAY_WIDTH))
    IN  [x |-> cam.x + RoundDiv((t1 - cam.x) * 2, 10), target_x |-> t1]

\* ------------------------------------------------------------------------
\* IMUController
\* ------------------------------------------------------------------------
\* the state after __init__ and calibrate(); offset_x is folded into the
\* reading: the model's accelerometer input is accel_x - offset_x
NewIMU ==
    [prev_jump |-> TRUE, jump_buffer |-> FALSE, jump_buffer_frames |-> 0,
     left |-> FALSE, right |-> FALSE, jump |-> FALSE, run |-> FALSE, tilt_value |-> 0]

\* IMUController.poll_button_only; pressed is `not self.btn_jump.value`
PollButtonOnly(imu, pressed) ==
    LET edge == pressed /\ ~imu.prev_jump
    IN  [imu EXCEPT !.jump_buffer = IF edge THEN TRUE ELSE @,
                    !.jump_buffer_frames = IF edge THEN JUMP_BUFFER_FRAMES ELSE @,
                    !.prev_jump = pressed]

TiltOf_Unclamped(adjusted_x) ==
    IF Abs(adjusted_x) < TILT_DEADZONE THEN 0
    ELSE IF adjusted_x > 0
         THEN RoundDiv((adjusted_x - TILT_DEADZONE) * Scale, TILT_MAX)
         ELSE -RoundDiv((-adjusted_x - TILT_DEADZONE) * Scale, TILT_MAX)

\* the deadzone and normalisation of IMUController.update (lines 606-623)
TiltOf(adjusted_x) ==
    IF Abs(adjusted_x) < TILT_DEADZONE THEN 0
    ELSE IF adjusted_x > 0
         THEN Min(Scale, RoundDiv((adjusted_x - TILT_DEADZONE) * Scale, TILT_MAX))
         ELSE Max(-Scale, -RoundDiv((-adjusted_x - TILT_DEADZONE) * Scale, TILT_MAX))

JumpRead_ClearsOnRead(imu, pressed) ==
    LET edge == pressed /\ ~imu.prev_jump
        buf == IF edge THEN TRUE ELSE imu.jump_buffer
    IN  [prev_jump |-> pressed, jump_buffer |-> FALSE,
         jump_buffer_frames |-> IF buf THEN 0 ELSE imu.jump_buffer_frames,
         jump |-> buf]

\* the button part of IMUController.update (lines 625-644): the four fields
\* it sets
JumpRead(imu, pressed) ==
    LET edge == pressed /\ ~imu.prev_jump
        buf == IF edge THEN TRUE ELSE imu.jump_buffer
        frames == IF edge THEN JUMP_BUFFER_FRAMES ELSE imu.jump_buffer_frames
        frames2 == IF buf THEN frames - 1 ELSE frames
        expired == buf /\ frames2 <= 0
    IN  [prev_jump |-> pressed,
         jump_buffer |-> IF expired THEN FALSE ELSE buf,
         jump_buffer_frames |-> frames2,
         jump |-> buf /\ ~expired]

\* IMUController.update: adjusted_x is the calibrated reading, pressed the
\* button level, touched the capacitive pad (touch_available is true)
IMUUpdate(imu, adjusted_x, pressed, touched) ==
    LET dead == Abs(adjusted_x) < TILT_DEADZONE
        b == JumpRead(imu, pressed)
    IN  [prev_jump |-> b.prev_jump,
         jump_buffer |-> b.jump_buffer,
         jump_buffer_frames |-> b.jump_buffer_frames,
         left |-> ~dead /\ adjusted_x <= 0,
         right |-> ~dead /\ adjusted_x > 0,
         jump |-> b.jump,
         run |-> touched,
         tilt_value |-> TiltOf(adjusted_x)]

\* ------------------------------------------------------------------------
\* Mario
\* ------------------------------------------------------------------------
NewMario(x, y) ==
    [x |-> x, y |-> y, vel_x |-> 0, vel_y |-> 0, on_ground |-> FALSE,
     facing_right |-> TRUE, is_running |-> FALSE, invincible |-> 0,
     sprite_frame |-> 0, anim_counter |-> 0, jump_triggered |-> FALSE]

\* the box test that opens Mario.check_platform_collision
MarioOverlaps(m, p) ==
    /\ m.x + MARIO_WIDTH > p.x
    /\ m.x < p.x + p.width
    /\ m.y + MARIO_HEIGHT > p.y
    /\ m.y < p.y + p.height

LandsOn(m, p, prev_y) == prev_y + MARIO_HEIGHT <= p.y /\ m.vel_y > 0

HitsFromBelow(m, p, prev_y) == prev_y >= p.y + p.height /\ m.vel_y < 0

Land_NoSnap(m, p) ==
    [m EXCEPT !.vel_y = 0, !.on_ground = TRUE, !.jump_triggered = FALSE]

\* lines 514-517: Mario put on top of the platform
Land(m, p) ==
    [m EXCEPT !.y = p.y - MARIO_HEIGHT, !.vel_y = 0,
              !.on_ground = TRUE, !.jump_triggered = FALSE]

\* lines 522-523: Mario put under the platform
Bonk(m, p) == [m EXCEPT !.y = p.y + p.height, !.vel_y = 0]

\* Mario.check_platform_collision: [hit |-> its return value, m |-> Mario after it]
CheckPlatformCollision(m, p, prev_y) ==
    IF MarioOverlaps(m, p) /\ LandsOn(m, p, prev_y) THEN [hit |-> TRUE, m |-> Land(m, p)]
    ELSE IF MarioOverlaps(m, p) /\ HitsFromBelow(m, p, prev_y)
    THEN [hit |-> TRUE, m |-> Bonk(m, p)]
    ELSE [hit |-> FALSE, m |-> m]

MarioSkips_Narrow(m, p) == Abs(p.x - m.x) > Px(10) /\ Abs(p.y - m.y) > Px(10)

\* the proximity test of Mario.update (nearby_range = 150)
MarioSkips(m, p) == Abs(p.x - m.x) > Px(150) /\ Abs(p.y - m.y) > Px(150)

\* the platform loop of Mario.update (lines 490-496): the first platform, in
\* list order, that is not skipped and whose check returns true ends the loop
\* and is the only one that changes Mario
MarioPlatformLoop(m, prev_y) ==
    LET hits == {i \in 1..NumPlatforms :
                    /\ ~MarioSkips(m, Platforms[i])
                    /\ CheckPlatformCollision(m, Platforms[i], prev_y).hit}
    IN  IF hits = {} THEN m
        ELSE CheckPlatformCollision(m, Platforms[First(hits)], prev_y).m

\* Mario.update up to and including "Update position" (lines 440-484)
MarioIntegrate(m, imu) ==
    LET inv == IF m.invincible > 0 THEN m.invincible - 1 ELSE m.invincible
        tilted == imu.tilt_value # 0
        speed == IF imu.run THEN RUN_SPEED ELSE MOVE_SPEED
        decel == RoundDiv(m.vel_x * 8, 10)
        vx == IF tilted THEN RoundDiv(imu.tilt_value * speed, Scale)
              ELSE IF Abs(decel) < Scale \div 10 THEN 0 ELSE decel
        facing == IF tilted THEN imu.tilt_value > 0 ELSE m.facing_right
        walk == tilted /\ m.on_ground
        toggle == walk /\ m.anim_counter + 1 > 5
        counter == IF toggle THEN 0 ELSE IF walk THEN m.anim_counter + 1 ELSE m.anim_counter
        frame1 == IF ~tilted THEN 0
                  ELSE IF toggle THEN (IF m.sprite_frame = 0 THEN 1 ELSE 0)
                  ELSE m.sprite_frame
        jumps == imu.jump /\ m.on_ground
        ground == m.on_ground /\ ~jumps
        vy0 == IF jumps THEN JUMP_STRENGTH ELSE m.vel_y
        vy == IF ground THEN vy0 ELSE Min(vy0 + GRAVITY, TERMINAL_VEL)
    IN  [m EXCEPT !.invincible = inv, !.vel_x = vx, !.facing_right = facing,
                  !.anim_counter = counter,
                  !.sprite_frame = IF ground THEN frame1 ELSE 2,
                  !.jump_triggered = IF jumps THEN TRUE ELSE @,
                  !.on_ground = ground, !.vel_y = vy,
                  !.x = m.x + vx, !.y = m.y + vy]

GroundCollision_Strict(m) ==
    IF m.y > GROUND_Y
    THEN [m EXCEPT !.y = GROUND_Y, !.vel_y = 0, !.on_ground = TRUE, !.jump_triggered = FALSE]
    ELSE m

\* the ground plane of Mario.update (lines 498-503)
GroundCollision(m) ==
    IF m.y >= GROUND_Y
    THEN [m EXCEPT !.y = GROUND_Y, !.vel_y = 0, !.on_ground = TRUE, !.jump_triggered = FALSE]
    ELSE m

MarioUpdate_JumpSkipsGravity(m, imu) ==
    LET moved == MarioIntegrate(m, imu)
        jumped == IF imu.jump /\ m.on_ground
                  THEN [moved EXCEPT !.vel_y = JUMP_STRENGTH, !.y = m.y + JUMP_STRENGTH]
                  ELSE moved
    IN  GroundCollision(MarioPlatformLoop([jumped EXCEPT !.on_ground = FALSE], m.y))

\* Mario.update(imu_control, platforms)
MarioUpdate(m, imu) ==
    LET moved == MarioIntegrate(m, imu)
    IN  GroundCollision(MarioPlatformLoop([moved EXCEPT !.on_ground = FALSE], m.y))

\* ------------------------------------------------------------------------
\* Enemy
\* ------------------------------------------------------------------------
\* the proximity test of Enemy.update (nearby_range = 100)
EnemySkips(e, p) == Abs(p.x - e.x) > Px(100)

EnemyOverX(e, p) == e.x + ENEMY_WIDTH > p.x /\ e.x < p.x + p.width

\* the landing test of Enemy.update (lines 329-333)
EnemyLands(e, p) ==
    /\ EnemyOverX(e, p)
    /\ e.vel_y >= 0
    /\ e.y + ENEMY_HEIGHT >= p.y
    /\ e.y + ENEMY_HEIGHT <= p.y + p.height + Px(5)

\* the first loop of Enemy.update (lines 324-337): the first platform, in list
\* order, that is near and landed on ends the loop
EnemyGroundLoop(e) ==
    LET lands == {i \in 1..NumPlatforms :
                    ~EnemySkips(e, Platforms[i]) /\ EnemyLands(e, Platforms[i])}
    IN  IF lands = {} THEN e
        ELSE [e EXCEPT !.y = Platforms[First(lands)].y - ENEMY_HEIGHT,
                       !.vel_y = 0, !.on_ground = TRUE]

\* the wall test of Enemy.update (lines 344-346)
EnemyBumps(e, p) == EnemyOverX(e, p) /\ e.y + ENEMY_HEIGHT > p.y + p.height

EnemyWallLoop_KeepsX(e) ==
    LET bumps == {i \in 1..NumPlatforms :
                    ~EnemySkips(e, Platforms[i]) /\ EnemyBumps(e, Platforms[i])}
    IN  IF bumps = {} THEN e ELSE [e EXCEPT !.vel_x = -e.vel_x]

\* the second loop of Enemy.update (lines 340-352): the first platform, in
\* list order, that is near and bumped into ends the loop
EnemyWallLoop(e) ==
    LET bumps == {i \in 1..NumPlatforms :
                    ~EnemySkips(e, Platforms[i]) /\ EnemyBumps(e, Platforms[i])}
        p == Platforms[First(bumps)]
    IN  IF bumps = {} THEN e
        ELSE [e EXCEPT !.x = IF e.vel_x > 0 THEN p.x - ENEMY_WIDTH ELSE p.x + p.width,
                       !.vel_x = -e.vel_x]

\* the animation counter of Enemy.update (lines 354-357)
EnemyAnimate(e) ==
    IF e.frame_counter + 1 >= 15
    THEN [e EXCEPT !.sprite_frame = 1 - e.sprite_frame, !.frame_counter = 0]
    ELSE [e EXCEPT !.frame_counter = e.frame_counter + 1]

EnemyUpdate_RemovesAtScreenEdge(e) ==
    IF ~e.alive THEN [remove |-> FALSE, e |-> e]
    ELSE LET moved == [e EXCEPT !.x = e.x + e.vel_x, !.vel_y = e.vel_y + GRAVITY,
                                !.y = e.y + e.vel_y + GRAVITY, !.on_ground = FALSE]
             e2 == EnemyAnimate(EnemyWallLoop(EnemyGroundLoop(moved)))
         IN  [remove |-> e2.y > DISPLAY_HEIGHT, e |-> e2]

\* Enemy.update(platforms): [remove |-> its return value, e |-> the enemy after it]
EnemyUpdate(e) ==
    IF ~e.alive THEN [remove |-> FALSE, e |-> e]
    ELSE LET moved == [e EXCEPT !.x = e.x + e.vel_x, !.vel_y = e.vel_y + GRAVITY,
                                !.y = e.y + e.vel_y + GRAVITY, !.on_ground = FALSE]
             e2 == EnemyAnimate(EnemyWallLoop(EnemyGroundLoop(moved)))
         IN  [remove |-> e2.y > DISPLAY_HEIGHT + Px(50), e |-> e2]

\* Enemy.stomp
Stomp(e) == [e EXCEPT !.alive = FALSE]

\* ------------------------------------------------------------------------
\* MarioGame: the session
\* ------------------------------------------------------------------------
\* The session is handled as a record g with the fields of MarioGame:
\* mario, level_enemies, level_coins, camera, imu, score, coins, lives,
\* game_over, level_complete, victory_timer, and the hidden flags of the
\* three overlay groups.

\* MarioGame.__init__ (lines 909-922) with the overlays as their constructors
\* leave them
NewGame ==
    [mario |-> NewMario(MARIO_START_X, GROUND_Y),
     level_enemies |-> LevelEnemies,
     level_coins |-> LevelCoins,
     camera |-> NewCamera,
     imu |-> NewIMU,
     score |-> 0, coins |-> 0, lives |-> START_LIVES,
     game_over |-> FALSE, level_complete |-> FALSE, victory_timer |-> 0,
     hud_hidden |-> FALSE, victory_hidden |-> TRUE, gameover_hidden |-> TRUE]

ResetLevel_KeepsLevel(g) ==
    [g EXCEPT !.mario = NewMario(MARIO_START_X, GROUND_Y), !.camera = NewCamera,
              !.score = 0, !.coins = 0, !.lives = START_LIVES,
              !.game_over = FALSE, !.level_complete = FALSE, !.victory_timer = 0,
              !.victory_hidden = TRUE, !.gameover_hidden = TRUE, !.hud_hidden = FALSE]

\* MarioGame.reset_level: a fresh Level, Mario and Camera; imu is kept
ResetLevel(g) ==
    [g EXCEPT !.level_enemies = LevelEnemies, !.level_coins = LevelCoins,
              !.mario = NewMario(MARIO_START_X, GROUND_Y), !.camera = NewCamera,
              !.score = 0, !.coins = 0, !.lives = START_LIVES,
              !.game_over = FALSE, !.level_complete = FALSE, !.victory_timer = 0,
              !.victory_hidden = TRUE, !.gameover_hidden = TRUE, !.hud_hidden = FALSE]

\* the overlap test of the enemy loop (lines 1090-1093)
MarioHitsEnemy(m, e) ==
    check_collision(m.x, m.y, MARIO_WIDTH, MARIO_HEIGHT, e.x, e.y, ENEMY_WIDTH, ENEMY_HEIGHT)

IsStomp_AtRest(m, e) == m.vel_y >= 0 /\ m.y < e.y

\* the stomp test (line 1094)
IsStomp(m, e) == m.vel_y > 0 /\ m.y < e.y

\* the guard of the enemy check (line 1089)
EnemyChecked_IgnoresInvincible(g, e) == e.alive

EnemyChecked_IgnoresAlive(g, e) == g.mario.invincible = 0

EnemyChecked(g, e) == e.alive /\ g.mario.invincible = 0

StompEnemy_DoubleScore(g, e) ==
    [g EXCEPT !.level_enemies = Append(@, Stomp(e)),
              !.score = @ + 2 * STOMP_SCORE,
              !.mario.vel_y = STOMP_BOUNCE]

\* lines 1095-1097: the stomp
StompEnemy(g, e) ==
    [g EXCEPT !.level_enemies = Append(@, Stomp(e)),
              !.score = @ + STOMP_SCORE,
              !.mario.vel_y = STOMP_BOUNCE]

DamageMario_TwoLives(g, e) ==
    LET dead == g.lives - 2 <= 0
    IN  [g EXCEPT !.level_enemies = Append(@, e),
                  !.lives = @ - 2,
                  !.mario.invincible = INVINCIBLE_FRAMES,
                  !.game_over = IF dead THEN TRUE ELSE @,
                  !.gameover_hidden = IF dead THEN FALSE ELSE @,
                  !.hud_hidden = IF dead THEN TRUE ELSE @]

DamageMario_LateGameOver(g, e) ==
    LET dead == g.lives - 1 < 0
    IN  [g EXCEPT !.level_enemies = Append(@, e),
                  !.lives = @ - 1,
                  !.mario.invincible = INVINCIBLE_FRAMES,
                  !.game_over = IF dead THEN TRUE ELSE @,
                  !.gameover_hidden = IF dead THEN FALSE ELSE @,
                  !.hud_hidden = IF dead THEN TRUE ELSE @]

\* lines 1100-1107: the damage, and game over when no life is left
DamageMario(g, e) ==
    LET dead == g.lives - 1 <= 0
    IN  [g EXCEPT !.level_enemies = Append(@, e),
                  !.lives = @ - 1,
                  !.mario.invincible = INVINCIBLE_FRAMES,
                  !.game_over = IF dead THEN TRUE ELSE @,
                  !.gameover_hidden = IF dead THEN FALSE ELSE @,
                  !.hud_hidden = IF dead THEN TRUE ELSE @]

\* lines 1089-1107 for one enemy e that Enemy.update has just moved; g carries
\* the session as the earlier enemies of the loop left it
EnemyInteract(g, e) ==
    IF EnemyChecked(g, e) /\ MarioHitsEnemy(g.mario, e)
    THEN IF IsStomp(g.mario, e) THEN StompEnemy(g, e) ELSE DamageMario(g, e)
    ELSE [g EXCEPT !.level_enemies = Append(@, e)]

RECURSIVE EnemyLoop_DropsDead(_, _, _)
EnemyLoop_DropsDead(g, es, i) ==
    IF i > Len(es) THEN g
    ELSE LET r == EnemyUpdate(es[i])
         IN  IF r.remove \/ ~es[i].alive THEN EnemyLoop_DropsDead(g, es, i + 1)
             ELSE EnemyLoop_DropsDead(EnemyInteract(g, r.e), es, i + 1)

\* the enemy loop (lines 1084-1107) over the copy es of the list, from its
\* i-th element on; g.level_enemies collects the enemies that stay in the list
RECURSIVE EnemyLoop(_, _, _)
EnemyLoop(g, es, i) ==
    IF i > Len(es) THEN g
    ELSE LET r == EnemyUpdate(es[i])
         IN  IF r.remove THEN EnemyLoop(g, es, i + 1)
             ELSE EnemyLoop(EnemyInteract(g, r.e), es, i + 1)

\* the overlap test of the coin loop (lines 1112-1115)
MarioHitsCoin(m, c) ==
    check_collision(m.x, m.y, MARIO_WIDTH, MARIO_HEIGHT, c.x, c.y, COIN_WIDTH, COIN_HEIGHT)

Collects_Again(m, c) == MarioHitsCoin(m, c)

\* lines 1111-1115: an uncollected coin that Mario overlaps
Collects(m, c) == ~c.collected /\ MarioHitsCoin(m, c)

\* the coin loop (lines 1110-1119)
CoinLoop(g) ==
    LET got == {i \in 1..Len(g.level_coins) : Collects(g.mario, g.level_coins[i])}
    IN  [g EXCEPT !.level_coins = [i \in 1..Len(g.level_coins) |->
                                     [g.level_coins[i] EXCEPT !.collected = @ \/ i \in got]],
                  !.coins = @ + Cardinality(got),
                  !.score = @ + COIN_SCORE * Cardinality(got)]

LevelCompletion_KeepsHud(g) ==
    IF ~g.level_complete /\ g.mario.x >= LEVEL_END_X
    THEN [g EXCEPT !.level_complete = TRUE, !.victory_timer = VICTORY_FRAMES,
                   !.victory_hidden = FALSE]
    ELSE g

\* the level completion check (lines 1122-1129)
LevelCompletion(g) ==
    IF ~g.level_complete /\ g.mario.x >= LEVEL_END_X
    THEN [g EXCEPT !.level_complete = TRUE, !.victory_timer = VICTORY_FRAMES,
                   !.victory_hidden = FALSE, !.hud_hidden = TRUE]
    ELSE g

FallDeath_EnemyThreshold(g) ==
    IF g.mario.y > DISPLAY_HEIGHT + Px(50)
    THEN IF g.lives - 1 <= 0
         THEN [g EXCEPT !.lives = @ - 1, !.game_over = TRUE,
                        !.gameover_hidden = FALSE, !.hud_hidden = TRUE]
         ELSE [g EXCEPT !.lives = @ - 1, !.mario.x = MARIO_START_X, !.mario.y = GROUND_Y,
                        !.mario.invincible = INVINCIBLE_FRAMES]
    ELSE g

\* the fall death check (lines 1136-1147)
FallDeath(g) ==
    IF g.mario.y > DISPLAY_HEIGHT
    THEN IF g.lives - 1 <= 0
         THEN [g EXCEPT !.lives = @ - 1, !.game_over = TRUE,
                        !.gameover_hidden = FALSE, !.hud_hidden = TRUE]
         ELSE [g EXCEPT !.lives = @ - 1, !.mario.x = MARIO_START_X, !.mario.y = GROUND_Y,
                        !.mario.invincible = INVINCIBLE_FRAMES]
    ELSE g

\* lines 1063-1068: the two button reads and the sensor read of a playing
\* frame; in is the frame's readings [pressed1, adjusted_x, pressed2, touched]
ReadControls(g, in) ==
    LET imu2 == IMUUpdate(PollButtonOnly(g.imu, in.pressed1),
                          in.adjusted_x, in.pressed2, in.touched)
    IN  [g EXCEPT !.imu = imu2, !.mario.is_running = imu2.run]

\* lines 1074-1081: Mario.update and Camera.update
MoveMario(g) ==
    LET m == MarioUpdate(g.mario, g.imu)
    IN  [g EXCEPT !.mario = m, !.camera = CameraUpdate(g.camera, m.x)]

\* lines 1084-1107: the enemy loop over a copy of the list
MoveEnemies(g) == EnemyLoop([g EXCEPT !.level_enemies = <<>>], g.level_enemies, 1)

\* a playing frame of MarioGame.update (lines 1063-1150)
\* The session after each part of a playing frame, in the order update()
\* runs them, gathered in one record; final is the session the frame leaves.
AfterEnemies(moved) == [moved |-> moved, fought |-> MoveEnemies(moved)]

AfterCoins(st) == [moved |-> st.moved, fought |-> st.fought, paid |-> CoinLoop(st.fought)]

AfterCompletion(st) ==
    [moved |-> st.moved, fought |-> st.fought, paid |-> st.paid,
     done |-> LevelCompletion(st.paid)]

AfterFall(st) ==
    [moved |-> st.moved, fought |-> st.fought, paid |-> st.paid, done |-> st.done,
     final |-> FallDeath(st.done)]

Stages(g, in) ==
    AfterFall(AfterCompletion(AfterCoins(AfterEnemies(MoveMario(ReadControls(g, in))))))

PlayFrame(g, in) == Stages(g, in).final

\* the victory countdown of MarioGame.update (lines 1056-1061)
VictoryCountdown(g) ==
    LET g2 == [g EXCEPT !.victory_timer = @ - 1]
    IN  IF g2.victory_timer = 0 THEN ResetLevel(g2) ELSE g2

GameUpdate_ScrollsInCountdown(g, in) ==
    IF g.game_over THEN g
    ELSE IF g.level_complete /\ g.victory_timer > 0
         THEN VictoryCountdown([g EXCEPT !.camera = CameraUpdate(@, g.mario.x)])
    ELSE PlayFrame(g, in)

\* MarioGame.update
GameUpdate(g, in) ==
    IF g.game_over THEN g
    ELSE IF g.level_complete /\ g.victory_timer > 0 THEN VictoryCountdown(g)
    ELSE PlayFrame(g, in)

\* ------------------------------------------------------------------------
\* MarioGame.draw and the sprite pools
\* ------------------------------------------------------------------------
\* A sprite is kept as its x, y (whole pixels) and hidden.  The tile index and
\* the flip of a sprite, which draw() sets only when the sprite sheets were
\* loaded, and the labels of the HUD are functions of the session and are
\* not kept.
PLATFORM_POOL == 75
ENEMY_POOL == 10
COIN_POOL == 20
VISIBLE_MARGIN == Px(64)

\* int() of a float: truncation towards 0, to whole pixels
IntOf(v) == IF v >= 0 THEN v \div Scale ELSE -((-v) \div Scale)

NewSprite(x, y, hidden) == [x |-> x, y |-> y, hidden |-> hidden]

\* setup_sprite_pools: every pool sprite hidden at (0, 0); the Mario sprite
\* visible, at (40, GROUND_Y) when the sprite sheets were loaded
NewSprites(loaded) ==
    [platform_sprites |-> [i \in 1..PLATFORM_POOL |-> NewSprite(0, 0, TRUE)],
     enemy_sprites |-> [i \in 1..ENEMY_POOL |-> NewSprite(0, 0, TRUE)],
     coin_sprites |-> [i \in 1..COIN_POOL |-> NewSprite(0, 0, TRUE)],
     mario_sprite |-> IF loaded THEN NewSprite(40, 105, FALSE) ELSE NewSprite(0, 0, FALSE),
     used_platform_sprites |-> 0, used_enemy_sprites |-> 0, used_coin_sprites |-> 0]

InWindow_Wide(x, w, camera_x) ==
    /\ x + w > camera_x - 10 * VISIBLE_MARGIN
    /\ x < camera_x + DISPLAY_WIDTH + 10 * VISIBLE_MARGIN

\* the window test of draw() for an entity of width w (lines 1156-1157, 1171)
InWindow(x, w, camera_x) ==
    /\ x + w > camera_x - VISIBLE_MARGIN
    /\ x < camera_x + DISPLAY_WIDTH + VISIBLE_MARGIN

SweepOne_Unchecked(r, e, passes, camera_x) ==
    IF passes
    THEN [pool |-> [r.pool EXCEPT ![r.index + 1] =
                        NewSprite(IntOf(e.x - camera_x), IntOf(e.y), FALSE)],
          index |-> r.index + 1]
    ELSE r

\* one iteration of a sweep (lines 1171-1194, 1208-1222, 1236-1253): the
\* entity e passes the loop's test or not; index is the running slot index
\* (0-based, as in the code)
SweepOne(r, e, passes, camera_x) ==
    IF passes /\ r.index < Len(r.pool)
    THEN [pool |-> [r.pool EXCEPT ![r.index + 1] =
                        NewSprite(IntOf(e.x - camera_x), IntOf(e.y), FALSE)],
          index |-> r.index + 1]
    ELSE r

\* the sweep of the elements lo..hi of an entity list, in list order, from
\* the pool and slot index of r; shown is the set of positions of the list
\* that pass the loop's test.  The range is swept as its first half followed
\* by its second half; the test of r.index, which is never negative, only
\* makes r be evaluated before the range is entered.
RECURSIVE SweepPool(_, _, _, _, _, _)
SweepPool(r, es, shown, lo, hi, camera_x) ==
    IF r.index < 0 \/ lo > hi THEN r
    ELSE IF lo = hi THEN SweepOne(r, es[lo], lo \in shown, camera_x)
    ELSE LET mid == (lo + hi) \div 2
         IN  SweepPool(SweepPool(r, es, shown, lo, mid, camera_x),
                       es, shown, mid + 1, hi, camera_x)

HideUnused_Never(pool, used) == pool

\* the loop that hides the unused sprites (lines 1199-1201, 1227-1229, 1258-1260)
HideUnused(pool, used) ==
    [i \in 1..Len(pool) |-> IF i > used THEN [pool[i] EXCEPT !.hidden = TRUE] ELSE pool[i]]

\* the loop tests of the three sweeps
ShownPlatforms(ps, camera_x) ==
    {j \in 1..Len(ps) : InWindow(ps[j].x, ps[j].width, camera_x)}

ShownCoins(cs, camera_x) ==
    {j \in 1..Len(cs) : ~cs[j].collected /\ InWindow(cs[j].x, COIN_WIDTH, camera_x)}

ShownEnemies(es, camera_x) ==
    {j \in 1..Len(es) : es[j].alive /\ InWindow(es[j].x, ENEMY_WIDTH, camera_x)}

\* lines 1262-1279: Mario blinks while invincible
DrawMario(sprite, m, camera_x) ==
    IF m.invincible = 0 \/ m.invincible % 10 < 5
    THEN NewSprite(IntOf(m.x - camera_x), IntOf(m.y), FALSE)
    ELSE [sprite EXCEPT !.hidden = TRUE]

\* MarioGame.draw
DrawSprites(sp, g, platforms) ==
    LET cx == g.camera.x
        ps == SweepPool([pool |-> sp.platform_sprites, index |-> 0], platforms,
                        ShownPlatforms(platforms, cx), 1, Len(platforms), cx)
        cs == SweepPool([pool |-> sp.coin_sprites, index |-> 0], g.level_coins,
                        ShownCoins(g.level_coins, cx), 1, Len(g.level_coins), cx)
        es == SweepPool([pool |-> sp.enemy_sprites, index |-> 0], g.level_enemies,
                        ShownEnemies(g.level_enemies, cx), 1, Len(g.level_enemies), cx)
    IN  [platform_sprites |-> HideUnused(ps.pool, ps.index),
         coin_sprites |-> HideUnused(cs.pool, cs.index),
         enemy_sprites |-> HideUnused(es.pool, es.index),
         mario_sprite |-> DrawMario(sp.mario_sprite, g.mario, cx),
         used_platform_sprites |-> ps.index,
         used_coin_sprites |-> cs.index,
         used_enemy_sprites |-> es.index]

\* ------------------------------------------------------------------------
\* State
\* ------------------------------------------------------------------------
VARIABLES
    game,       \* the MarioGame object (see NewGame)
    pc,         \* where run() is: "loop", "update", "draw", "hold", "done", "raised"
    hold_i,     \* the i of the hold loop of run()
    player,     \* the player of this level instance
    tick,       \* the number of update() calls of this level instance
    inp,        \* the readings of the controls in the last update() call
    before,     \* history: the session as the last update() call found it
    edge_age,   \* history: IMUController.update() calls since the last press
                \* edge was detected, counting the call that detected it
                \* (0: detected by a poll, no call since; MaxAge: none, or older)
    edge_iter,  \* history: iterations of the frame loop of run() begun since
                \* the one in which the last press edge was detected (0: this
                \* iteration; MaxAge: none, or older)
    sprites,    \* the sprite pools and the Mario sprite (see NewSprites)
    level_platforms,    \* self.level.platforms, the list draw() sweeps; in
                \* the game it is always Platforms
    audio,      \* the AudioManager (see NewAudio)
    started,    \* history: the clips the last update() call started, in order
    kong,       \* the globals of Demo-5_DonkeyKong/code.py (see NewKong)
    blink       \* the pixels and tasks of Demo-0-6_Cooperative_Multitasking/code.py
                \* (see NewBlink)

vars == <<game, pc, hold_i, player, tick, inp, before, edge_age, edge_iter, sprites,
          level_platforms, audio, started, kong, blink>>

MaxAge == 4

\* a press edge, as both IMUController.update and poll_button_only detect it
PressEdge(imu, pressed) == pressed /\ ~imu.prev_jump

AgeAfterPoll(imu, pressed, age) == IF PressEdge(imu, pressed) THEN 0 ELSE age

AgeAfterUpdate(imu, pressed, age) == Min(AgeAfterPoll(imu, pressed, age) + 1, MaxAge)

\* the poll of line 1334 begins an iteration of the frame loop
IterAfterPoll(imu, pressed, iter) ==
    IF PressEdge(imu, pressed) THEN 0 ELSE Min(iter + 1, MaxAge)

NoInput == [pressed1 |-> FALSE, adjusted_x |-> 0, pressed2 |-> FALSE, touched |-> FALSE]

\* is update() in a playing frame (neither of its two early returns is taken)
Playing(g) == ~g.game_over /\ ~(g.level_complete /\ g.victory_timer > 0)

\* ------------------------------------------------------------------------
\* AudioManager
\* ------------------------------------------------------------------------
\* The manager is kept as audio_enabled, sounds (the names load_sounds found a
\* file for), current (the clip handed to the DAC, or "none"), current_file
\* and current_wave (the clip they belong to, or "none" for None),
\* play_count, and since: the milliseconds from last_play_time to now, which
\* is all that play() uses of the clock; it stops counting at RATE_LIMIT_MS.
\* open_files is the number of file handles that play() opened (line 180) and
\* that nothing has closed since.
\* In the game run open(), WaveFile() and the DAC are taken to succeed on a
\* file that load_sounds could open; PlayOutcomes lists the ways they can fail.
SOUNDS == {"jump", "coin", "gameover", "world_clear"}

RATE_LIMIT_MS == 100
FRAME_MS == 33

\* AudioManager.__init__ with the DAC present; last_play_time = 0 lies more
\* than the limit before the first frame (calibrate() alone sleeps 1 s)
NewAudio(sounds) ==
    [audio_enabled |-> sounds # {}, sounds |-> sounds, current |-> "none",
     current_file |-> "none", current_wave |-> "none",
     since |-> RATE_LIMIT_MS, play_count |-> 0, open_files |-> 0]

\* AudioManager.cleanup_audio_resources; stop_fails: self.audio.playing or
\* self.audio.stop() raises (lines 125-126), which the handler of lines
\* 143-148 answers by clearing the two references: the file is not closed.
\* Otherwise the file, if there is one, is closed (129-134).
AudioCleanupWith(a, stop_fails) ==
    LET closed == IF a.current_file # "none" THEN a.open_files - 1 ELSE a.open_files
    IN  IF stop_fails
        THEN [a EXCEPT !.current_file = "none", !.current_wave = "none"]
        ELSE [a EXCEPT !.current = "none", !.current_file = "none", !.current_wave = "none",
                       !.open_files = closed]

AudioCleanup(a) == AudioCleanupWith(a, FALSE)

\* the three early returns of AudioManager.play (lines 152-163)
AudioAccepts(a, sound_name) ==
    /\ a.audio_enabled
    /\ sound_name \in a.sounds
    /\ ~(a.since < RATE_LIMIT_MS)

\* what can go wrong in the try block of play(): fails is the statement that
\* raises ("open": line 180, "wave": line 181, "play": line 182, "none": none
\* of them), stop_fails whether the DAC raises in a cleanup
PlayOutcomes == [fails : {"none", "open", "wave", "play"}, stop_fails : BOOLEAN]

AudioPlayWith_KeepsFile(a, sound_name, outcome) ==
    IF AudioAccepts(a, sound_name)
    THEN LET counted == [AudioCleanupWith(a, outcome.stop_fails) EXCEPT !.play_count = @ + 1]
             opened == [counted EXCEPT !.current_file = sound_name, !.open_files = @ + 1]
             waved == [opened EXCEPT !.current_wave = sound_name]
             played == [waved EXCEPT !.current = sound_name, !.since = 0]
         IN  CASE outcome.fails = "none" -> played
               [] outcome.fails = "open" -> counted
               [] outcome.fails = "wave" -> opened
               [] outcome.fails = "play" -> waved
    ELSE a

\* AudioManager.play(sound_name) with the given outcome of its try block:
\* lines 167-183 up to the statement that raises, then the handler of lines
\* 188-190
AudioPlayWith(a, sound_name, outcome) ==
    IF AudioAccepts(a, sound_name)
    THEN LET counted == [AudioCleanupWith(a, outcome.stop_fails) EXCEPT !.play_count = @ + 1]
             opened == [counted EXCEPT !.current_file = sound_name, !.open_files = @ + 1]
             waved == [opened EXCEPT !.current_wave = sound_name]
             played == [waved EXCEPT !.current = sound_name, !.since = 0]
         IN  CASE outcome.fails = "none" -> played
               [] outcome.fails = "open" -> AudioCleanupWith(counted, outcome.stop_fails)
               [] outcome.fails = "wave" -> AudioCleanupWith(opened, outcome.stop_fails)
               [] outcome.fails = "play" -> AudioCleanupWith(waved, outcome.stop_fails)
    ELSE a

\* AudioManager.play(sound_name) when nothing fails
AudioPlay(a, sound_name) ==
    AudioPlayWith(a, sound_name, [fails |-> "none", stop_fails |-> FALSE])

\* AudioManager.stop, the DAC raising in its cleanup or not
AudioStopWith(a, stop_fails) == IF a.audio_enabled THEN AudioCleanupWith(a, stop_fails) ELSE a

\* AudioManager.stop when nothing fails
AudioStop(a) == AudioStopWith(a, FALSE)

\* ms milliseconds pass
AudioElapse(a, ms) == [a EXCEPT !.since = Min(RATE_LIMIT_MS, @ + ms)]

\* n times the same request
Repeat(sound_name, n) == [i \in 1..n |-> sound_name]

\* the play() calls of a playing frame in the order update() makes them, st
\* being the frame's stages: 'jump' (1077-1078), 'gameover' from the enemy
\* loop (1105), 'coin' once per coin collected (1119), 'world_clear' (1125),
\* 'gameover' from the fall check (1141)
FrameRequests(g, st) ==
    (IF g.mario.on_ground /\ ~st.moved.mario.on_ground /\ st.moved.mario.vel_y < 0
     THEN <<"jump">> ELSE <<>>)
    \o (IF st.fought.game_over THEN <<"gameover">> ELSE <<>>)
    \o Repeat("coin", st.paid.coins - st.fought.coins)
    \o (IF st.done.level_complete /\ ~st.paid.level_complete
        THEN <<"world_clear">> ELSE <<>>)
    \o (IF st.done.mario.y > DISPLAY_HEIGHT /\ st.done.lives - 1 <= 0
        THEN <<"gameover">> ELSE <<>>)

\* the play() calls of one MarioGame.update
SoundRequests(g, in) == IF Playing(g) THEN FrameRequests(g, Stages(g, in)) ELSE <<>>

\* the play() calls of one update, made one after the other with no time
\* between them: the manager after them and the clips that were started
RECURSIVE PlayAll(_, _, _)
PlayAll(r, requests, i) ==
    IF i > Len(requests) THEN r
    ELSE PlayAll([audio |-> AudioPlay(r.audio, requests[i]),
                  started |-> IF AudioAccepts(r.audio, requests[i])
                              THEN Append(r.started, requests[i]) ELSE r.started],
                 requests, i + 1)

\* MarioGame.update with its audio side: the session and the manager it
\* leaves, and the clips it started.  reset_level stops the clip (1290).
UpdateAll(g, a, in) ==
    IF Playing(g)
    THEN LET st == Stages(g, in)
             r == PlayAll([audio |-> a, started |-> <<>>], FrameRequests(g, st), 1)
         IN  [game |-> st.final, audio |-> r.audio, started |-> r.started]
    ELSE [game |-> GameUpdate(g, in),
          audio |-> IF ~g.game_over /\ g.victory_timer = 1 THEN AudioStop(a) ELSE a,
          started |-> <<>>]

\* ------------------------------------------------------------------------
\* Demo-5_DonkeyKong/code.py: the Donkey Kong game
\* ------------------------------------------------------------------------
\* The game is kept in whole pixels: its speeds are whole numbers and the
\* tilts that the players hold move the player by whole pixels.  kong holds
\* the globals that the frame loop reads and writes: player, barrels,
\* barrel_timer (of donkey_kong), score, lives, game_over, last_jump, and
\* frame_count modulo 20, which is all the loop uses of it.  The sprites and
\* the NeoPixels are outputs and are not kept; neither are the sleeps.  The
\* names GRAVITY, JUMP_STRENGTH, MARIO_WIDTH and MARIO_HEIGHT of this program
\* carry the prefix KONG_ here.
WIDTH == 240
HEIGHT == 135
KONG_GRAVITY == 1
KONG_JUMP_STRENGTH == -12
PLATFORM_HEIGHT == 4
KONG_MARIO_WIDTH == 16
KONG_MARIO_HEIGHT == 16
DK_WIDTH == 32
DK_HEIGHT == 32
PRINCESS_WIDTH == 16
PRINCESS_HEIGHT == 16
BARREL_SIZE == 8
KONG_LIVES == 3
IMU_SENSITIVITY == (15 * Scale) \div 10
IMU_DEADZONE == (3 * Scale) \div 10

\* the platforms list (lines 380-386)
KongPlatforms ==
    <<[x |-> 0, y |-> HEIGHT - 10, width |-> WIDTH],
      [x |-> 20, y |-> HEIGHT - 40, width |-> 180],
      [x |-> 40, y |-> HEIGHT - 70, width |-> 180],
      [x |-> 20, y |-> HEIGHT - 100, width |-> 180],
      [x |-> 40, y |-> 20, width |-> 160]>>

\* Player.__init__
NewPlayer(x, y) == [x |-> x, y |-> y, vel_y |-> 0, is_jumping |-> FALSE, on_ground |-> FALSE]

\* Barrel.__init__
NewBarrel(x, y) == [x |-> x, y |-> y, vel_x |-> 2, vel_y |-> 0, active |-> TRUE]

\* the globals when the frame loop is entered (lines 400-416, 505, 508)
NewKong ==
    [player |-> NewPlayer(30, HEIGHT - KONG_MARIO_HEIGHT - 20),
     barrels |-> <<>>, barrel_timer |-> 0,
     score |-> 0, lives |-> KONG_LIVES, game_over |-> FALSE,
     last_jump |-> TRUE, frame_count |-> 0]

\* Player.move_imu; accel_x in thousandths of a m/s^2
PlayerMoveImu(p, accel_x) ==
    IF Abs(accel_x) < IMU_DEADZONE THEN p
    ELSE [p EXCEPT !.x = @ + (accel_x * IMU_SENSITIVITY) \div (Scale * Scale)]

\* Player.jump
PlayerJump(p) ==
    IF p.on_ground /\ ~p.is_jumping
    THEN [p EXCEPT !.vel_y = KONG_JUMP_STRENGTH, !.is_jumping = TRUE, !.on_ground = FALSE]
    ELSE p

\* the platform test of Player.update (lines 213-217)
PlayerLands(p, pl) ==
    /\ p.x > pl.x
    /\ p.x < pl.x + pl.width
    /\ p.y + KONG_MARIO_HEIGHT >= pl.y
    /\ p.y + KONG_MARIO_HEIGHT <= pl.y + PLATFORM_HEIGHT + 5
    /\ p.vel_y >= 0

\* the platform loop of Player.update (lines 212-221), from platform i on
RECURSIVE PlayerPlatformLoop(_, _)
PlayerPlatformLoop(p, i) ==
    IF i > Len(KongPlatforms) THEN p
    ELSE PlayerPlatformLoop(
            IF PlayerLands(p, KongPlatforms[i])
            THEN [p EXCEPT !.y = KongPlatforms[i].y - KONG_MARIO_HEIGHT, !.vel_y = 0,
                           !.on_ground = TRUE, !.is_jumping = FALSE]
            ELSE p,
            i + 1)

\* lines 224-233: the bottom of the screen and its sides
PlayerOnScreen(p) ==
    IF p.y >= HEIGHT - KONG_MARIO_HEIGHT
    THEN [p EXCEPT !.y = HEIGHT - KONG_MARIO_HEIGHT, !.vel_y = 0,
                   !.on_ground = TRUE, !.is_jumping = FALSE,
                   !.x = Max(0, Min(@, WIDTH - KONG_MARIO_WIDTH))]
    ELSE [p EXCEPT !.x = Max(0, Min(@, WIDTH - KONG_MARIO_WIDTH))]

\* Player.update(platforms)
PlayerUpdate(p) ==
    PlayerOnScreen(PlayerPlatformLoop(
        [p EXCEPT !.vel_y = @ + KONG_GRAVITY, !.y = @ + p.vel_y + KONG_GRAVITY,
                  !.on_ground = FALSE], 1))

\* the platform test of Barrel.update (lines 271-275)
BarrelLands(b, pl) ==
    /\ b.x > pl.x
    /\ b.x < pl.x + pl.width
    /\ b.y + BARREL_SIZE \div 2 >= pl.y
    /\ b.y + BARREL_SIZE \div 2 <= pl.y + PLATFORM_HEIGHT + 5
    /\ b.vel_y >= 0

\* the platform loop of Barrel.update (lines 270-277), from platform i on
RECURSIVE BarrelPlatformLoop(_, _)
BarrelPlatformLoop(b, i) ==
    IF i > Len(KongPlatforms) THEN b
    ELSE BarrelPlatformLoop(
            IF BarrelLands(b, KongPlatforms[i])
            THEN [b EXCEPT !.y = KongPlatforms[i].y - BARREL_SIZE \div 2, !.vel_y = 0]
            ELSE b,
            i + 1)

\* lines 280-281: a barrel that left the screen
BarrelOffScreen(b) == b.x < -10 \/ b.x > WIDTH + 10 \/ b.y > HEIGHT + 10

\* Barrel.update(platforms)
BarrelUpdate(b) ==
    LET rolled == BarrelPlatformLoop(
                    [b EXCEPT !.x = @ + b.vel_x, !.vel_y = @ + KONG_GRAVITY,
                              !.y = @ + b.vel_y + KONG_GRAVITY], 1)
    IN  [rolled EXCEPT !.active = IF BarrelOffScreen(rolled) THEN FALSE ELSE @]

\* Barrel.collides_with(player)
CollidesWith(b, p) ==
    /\ b.x + BARREL_SIZE \div 2 > p.x
    /\ b.x - BARREL_SIZE \div 2 < p.x + KONG_MARIO_WIDTH
    /\ b.y + BARREL_SIZE \div 2 > p.y
    /\ b.y - BARREL_SIZE \div 2 < p.y + KONG_MARIO_HEIGHT

BarrelHit_SingleLife(k) == [k EXCEPT !.lives = @ - 1, !.game_over = TRUE]

\* lines 576-589: a barrel hit the player (the barrel's active flag aside)
BarrelHit(k) ==
    [k EXCEPT !.lives = @ - 1, !.game_over = IF k.lives - 1 <= 0 THEN TRUE ELSE @]

\* lines 571-597 for the barrel b of the copy of the list: k.barrels collects
\* the barrels that stay in the list
BarrelStep(k, b) ==
    IF CollidesWith(b, k.player) THEN BarrelHit(k)
    ELSE IF b.active THEN [k EXCEPT !.barrels = Append(@, b)]
    ELSE k

\* the barrel loop (lines 571-597) over the copy bs of the list, from its
\* i-th element on
RECURSIVE BarrelLoop(_, _, _)
BarrelLoop(k, bs, i) ==
    IF i > Len(bs) THEN k
    ELSE BarrelLoop(BarrelStep(k, BarrelUpdate(bs[i])), bs, i + 1)

\* lines 563-568: Donkey Kong throws a barrel when his timer has passed 60
SpawnBarrel(k) ==
    IF k.barrel_timer + 1 > 60
    THEN [k EXCEPT !.barrels = Append(@, NewBarrel(10 + DK_WIDTH \div 2, 10 + DK_HEIGHT)),
                   !.barrel_timer = 0]
    ELSE [k EXCEPT !.barrel_timer = @ + 1]

\* lines 600-607: the player's centre is less than 20 pixels from the
\* princess's (she stands at (WIDTH - PRINCESS_WIDTH - 20, 5))
ReachedPrincess(p) ==
    LET dx == (p.x + KONG_MARIO_WIDTH \div 2)
                - (WIDTH - PRINCESS_WIDTH - 20 + PRINCESS_WIDTH \div 2)
        dy == (p.y + KONG_MARIO_HEIGHT \div 2) - (5 + PRINCESS_HEIGHT \div 2)
    IN  dx * dx + dy * dy < 20 * 20

\* lines 607-633: the level is complete
KongLevelComplete(k) ==
    IF ReachedPrincess(k.player)
    THEN [k EXCEPT !.score = @ + 100,
                   !.player.x = 30, !.player.y = HEIGHT - KONG_MARIO_HEIGHT - 20,
                   !.player.vel_y = 0,
                   !.barrels = <<>>]
    ELSE k

\* lines 514-560: the tilt is read and moves the player, the button is read
\* (current_jump is button_jump.value: False while pressed) and the player is
\* updated.  A read of the sensor that raises (547) leaves the player where
\* he is, as a reading inside the deadzone does.
KongControls(k, accel_x, current_jump) ==
    LET moved == PlayerMoveImu(k.player, accel_x)
    IN  [k EXCEPT !.player = PlayerUpdate(IF k.last_jump /\ ~current_jump
                                          THEN PlayerJump(moved) ELSE moved),
                  !.last_jump = current_jump]

\* lines 570-597: the barrel loop over a copy of the list
KongBarrels(k) == BarrelLoop([k EXCEPT !.barrels = <<>>], k.barrels, 1)

\* one iteration of the main game loop (lines 509-643)
KongFrame(k, accel_x, current_jump) ==
    IF ~k.game_over
    THEN [KongLevelComplete(KongBarrels(SpawnBarrel(KongControls(k, accel_x, current_jump))))
            EXCEPT !.frame_count = (@ + 1) % 20]
    ELSE [k EXCEPT !.frame_count = (@ + 1) % 20]

\* ------------------------------------------------------------------------
\* Demo-0-6_Cooperative_Multitasking/code.py: five blink tasks
\* ------------------------------------------------------------------------
\* Times are hundredths of a second.  blink holds pixels (the NeoPixel
\* buffer, pixel p of the program at position p + 1), the five tasks in the
\* order main() creates them, main (where main() is: "gather" or
\* "finished"), now (the clock of the event loop) and random (the value of
\* NEOPIXEL_RANDOM, drawn once when the module is loaded: "off" if the three
\* draws gave (0, 0, 0), else "random").  A task is where its coroutine is
\* suspended (pc: "created" before its first run, "on" in the sleep after the
\* colour was written, "off" in the sleep after NEOPIXEL_OFF was written,
\* "done" when it has returned), left (the iterations that range(count) still
\* has to give, the current one included), wake (when its sleep ends), and
\* the history cycles (the on/off pairs it has written) and wrote (the
\* pixels it has written).  A step of a task takes no time.
num_pixels == 5

\* the arguments of the five create_task(blinks(...)) calls (lines 36-40)
BlinkTasks ==
    <<[pixel |-> 0, interval |-> 30, count |-> 15, color_value |-> "random"],
      [pixel |-> 1, interval |-> 75, count |-> 10, color_value |-> "green"],
      [pixel |-> 2, interval |-> 100, count |-> 10, color_value |-> "red"],
      [pixel |-> 3, interval |-> 50, count |-> 10, color_value |-> "yellow"],
      [pixel |-> 4, interval |-> 25, count |-> 15, color_value |-> "blue"]>>

NumTasks == Len(BlinkTasks)

\* main() suspended in gather (line 43), the tasks created and not yet run
NewBlink(random) ==
    [pixels |-> [p \in 1..num_pixels |-> "off"],
     tasks |-> [i \in 1..NumTasks |->
                    [pc |-> "created", left |-> BlinkTasks[i].count, wake |-> 0,
                     cycles |-> 0, wrote |-> {}]],
     main |-> "gather", now |-> 0, random |-> random]

BlinkPixel_AlwaysFirst(i) == 0

\* the pixel argument of task i
BlinkPixel(i) == BlinkTasks[i].pixel

\* the color_value argument of task i
BlinkColor(b, i) ==
    IF BlinkTasks[i].color_value = "random" THEN b.random ELSE BlinkTasks[i].color_value

\* pixels[pixel] = value by task i, which then sleeps for its interval
\* (lines 29-30 and 31-32); the task is resumed at time at
BlinkWrite(b, i, at, value, state) ==
    [b EXCEPT !.pixels[BlinkPixel(i) + 1] = value,
              !.tasks[i].pc = state,
              !.tasks[i].wake = at + BlinkTasks[i].interval,
              !.tasks[i].wrote = @ \cup {BlinkPixel(i)},
              !.tasks[i].cycles = IF state = "off" THEN @ + 1 ELSE @,
              !.now = at]

\* the for statement of blinks (line 28) with n iterations left to give
BlinkLoop(b, i, at, n) ==
    IF n > 0
    THEN [BlinkWrite(b, i, at, BlinkColor(b, i), "on") EXCEPT !.tasks[i].left = n]
    ELSE [b EXCEPT !.tasks[i].pc = "done", !.tasks[i].left = 0, !.now = at]

\* the event loop resumes task i, which runs to its next await or to its end
BlinkResume(b, i) ==
    LET at == Max(b.now, b.tasks[i].wake)
    IN  CASE b.tasks[i].pc = "created" -> BlinkLoop(b, i, at, b.tasks[i].left)
          [] b.tasks[i].pc = "on" -> BlinkWrite(b, i, at, "off", "off")
          [] b.tasks[i].pc = "off" -> BlinkLoop(b, i, at, b.tasks[i].left - 1)

\* the tasks that have not returned
BlinkPending(b) == {i \in 1..NumTasks : b.tasks[i].pc # "done"}

\* the event loop runs the task whose sleep ends first; tasks whose sleeps
\* end at the same time run in any order
BlinkReady(b, i) ==
    /\ i \in BlinkPending(b)
    /\ \A j \in BlinkPending(b) : b.tasks[i].wake <= b.tasks[j].wake

\* ------------------------------------------------------------------------
\* The player and MarioGame.run
\* ------------------------------------------------------------------------
\* The inputs of the program are the three physical controls.  A player holds
\* the board at one tilt, keeps the touch pad touched or not, and taps the
\* jump button with a fixed period: the button is down during every frame
\* whose number is a multiple of `tap` (never if tap = 0).  A player is chosen
\* when a level starts (at construction and at every reset_level), plays at
\* most MaxTicks frames of it, and stops when Mario is MaxLeft pixels left of
\* the world.
MaxLeft == 60
MaxTicks == 700
MaxPlays == 40
FullTilt == Px(10)
Tilts == {0, FullTilt, -FullTilt}
Taps == {0, 2}
Players == [adjusted_x : Tilts, touched : BOOLEAN, tap : Taps]

ButtonDown == player.tap > 0 /\ tick % player.tap = 0

Init ==
    /\ game = NewGame
    /\ pc = "loop"
    /\ hold_i = 0
    /\ player \in Players
    /\ tick = 0
    /\ inp = NoInput
    /\ before = NewGame
    /\ edge_age = MaxAge
    /\ edge_iter = MaxAge
    /\ sprites \in {NewSprites(loaded) : loaded \in BOOLEAN}
    /\ level_platforms = Platforms
    /\ audio = NewAudio(SOUNDS)
    /\ started = <<>>
    /\ kong = NewKong
    /\ blink = NewBlink("random")

\* run(), lines 1331-1334: the loop test and the poll at the start of a frame
RunPoll ==
    /\ pc = "loop"
    /\ ~game.game_over
    /\ game' = [game EXCEPT !.imu = PollButtonOnly(@, ButtonDown)]
    /\ edge_age' = AgeAfterPoll(game.imu, ButtonDown, edge_age)
    /\ edge_iter' = IterAfterPoll(game.imu, ButtonDown, edge_iter)
    /\ pc' = "update"
    /\ UNCHANGED <<hold_i, player, tick, inp, before, sprites, level_platforms, audio, started, kong, blink>>

\* run(), line 1336: self.update()
Update ==
    /\ pc = "update"
    /\ game.mario.x >= -Px(MaxLeft)
    /\ tick < MaxTicks
    /\ audio.play_count < MaxPlays
    /\ LET in == [pressed1 |-> ButtonDown, adjusted_x |-> player.adjusted_x,
                  pressed2 |-> ButtonDown, touched |-> player.touched]
           restarts == game.level_complete /\ game.victory_timer = 1
           polled == PollButtonOnly(game.imu, in.pressed1)
       IN  /\ \E all \in {UpdateAll(game, audio, in)} :
                /\ game' = all.game
                /\ audio' = all.audio
                /\ started' = all.started
           /\ inp' = in
           /\ before' = game
           /\ edge_age' = IF Playing(game)
                          THEN AgeAfterUpdate(polled, in.pressed2,
                                              AgeAfterPoll(game.imu, in.pressed1, edge_age))
                          ELSE edge_age
           /\ edge_iter' = IF Playing(game) /\ (PressEdge(game.imu, in.pressed1)
                                                 \/ PressEdge(polled, in.pressed2))
                           THEN 0 ELSE edge_iter
           /\ IF restarts THEN player' \in Players ELSE player' = player
           /\ tick' = IF restarts THEN 0 ELSE tick + 1
    /\ pc' = "draw"
    /\ UNCHANGED <<hold_i, sprites, level_platforms, kong, blink>>

\* run(), lines 1337-1348: self.draw() and the rest of the frame, which is
\* taken to last its sleep of 33 ms (the 30 frames a second that the program's
\* comments count with)
Draw ==
    /\ pc = "draw"
    /\ sprites' = DrawSprites(sprites, game, level_platforms)
    /\ audio' = AudioElapse(audio, FRAME_MS)
    /\ pc' = "loop"
    /\ UNCHANGED <<game, hold_i, player, tick, inp, before, edge_age, edge_iter, level_platforms, started, kong, blink>>

\* run(), line 1331: the loop ends once game_over is set
RunExit ==
    /\ pc = "loop"
    /\ game.game_over
    /\ pc' = "hold"
    /\ hold_i' = 0
    /\ UNCHANGED <<game, player, tick, inp, before, edge_age, edge_iter, sprites, level_platforms, audio, started, kong, blink>>

\* run(), lines 1363-1371: one iteration of the hold loop
Hold ==
    /\ pc = "hold"
    /\ hold_i < HOLD_FRAMES
    /\ hold_i' = hold_i + 1
    /\ audio' = AudioElapse(audio, FRAME_MS)
    /\ UNCHANGED <<game, pc, player, tick, inp, before, edge_age, edge_iter, sprites, level_platforms, started, kong, blink>>

Finish_Early ==
    /\ pc = "hold"
    /\ hold_i = HOLD_FRAMES - 1
    /\ pc' = "done"
    /\ audio' = AudioStop(audio)
    /\ UNCHANGED <<game, hold_i, player, tick, inp, before, edge_age, edge_iter, sprites, level_platforms, started, kong, blink>>

\* run(), lines 1373-1376: the end of run()
Finish ==
    /\ pc = "hold"
    /\ hold_i = HOLD_FRAMES
    /\ pc' = "done"
    /\ audio' = AudioStop(audio)
    /\ UNCHANGED <<game, hold_i, player, tick, inp, before, edge_age, edge_iter, sprites, level_platforms, started, kong, blink>>

Next == RunPoll \/ Update \/ Draw \/ RunExit \/ Hold \/ Finish

Spec == Init /\ [][Next]_vars

\* ------------------------------------------------------------------------
\* Enemy.update on its own: one enemy of the level, from where
\* Level.create_level puts it, updated once per frame as the enemy loop does
\* (lines 1084-1087: an enemy whose update returns True is removed from the
\* list) and stomped at any moment (line 1095).  Nothing else in the program
\* writes to an enemy, so these are the states an enemy gets into.
\* ------------------------------------------------------------------------
MaxEnemySteps == 200

InitEnemy ==
    /\ \E i \in 1..Len(LevelEnemies) :
        game = [NewGame EXCEPT !.level_enemies = <<LevelEnemies[i]>>]
    /\ before = game
    /\ pc = "update"
    /\ hold_i = 0
    /\ player = [adjusted_x |-> 0, touched |-> FALSE, tap |-> 0]
    /\ tick = 0
    /\ inp = NoInput
    /\ edge_age = MaxAge
    /\ edge_iter = MaxAge
    /\ sprites = NewSprites(FALSE)
    /\ level_platforms = Platforms
    /\ audio = NewAudio(SOUNDS)
    /\ started = <<>>
    /\ kong = NewKong
    /\ blink = NewBlink("random")

\* lines 1084-1087
EnemyStep ==
    /\ pc \in {"update", "draw"}
    /\ game.level_enemies # <<>>
    /\ tick < MaxEnemySteps
    /\ \E r \in {EnemyUpdate(game.level_enemies[1])} :
        /\ game' = [game EXCEPT !.level_enemies = IF r.remove THEN <<>> ELSE <<r.e>>]
        /\ tick' = IF r.e = game.level_enemies[1] THEN tick ELSE tick + 1
    /\ before' = game
    /\ pc' = "draw"
    /\ UNCHANGED <<hold_i, player, inp, edge_age, edge_iter, sprites, level_platforms, audio, started, kong, blink>>

\* line 1095
EnemyStomped ==
    /\ pc \in {"update", "draw"}
    /\ game.level_enemies # <<>>
    /\ game.level_enemies[1].alive
    /\ game' = [game EXCEPT !.level_enemies = <<Stomp(@[1])>>]
    /\ pc' = "update"
    /\ UNCHANGED <<hold_i, player, tick, inp, before, edge_age, edge_iter, sprites, level_platforms, audio, started, kong, blink>>

NextEnemy == EnemyStep \/ EnemyStomped

SpecEnemy == InitEnemy /\ [][NextEnemy]_vars

\* ------------------------------------------------------------------------
\* Camera.update with Mario at rest: Mario stands at some x of the world, the
\* camera is some way before or behind its target (as far as a running Mario
\* leaves it behind, and much further), and update is called frame upon frame
\* ------------------------------------------------------------------------
MaxRestSteps == 64

RestXs == {Px(40), Px(81), Px(200) + 500, Px(1000), Px(2040) + 1, Px(2200)}

Lags == {-Px(1000), -Px(16), -Px(4), -3, -1, 0, 1, 2, Px(1) + 333, Px(16), Px(300)}

InitRest ==
    /\ \E mario_x \in RestXs, lag \in Lags :
        LET target_x == CameraUpdate(NewCamera, mario_x).target_x
        IN  /\ target_x + lag >= 0
            /\ target_x + lag <= WORLD_WIDTH - DISPLAY_WIDTH
            /\ game = [NewGame EXCEPT !.mario.x = mario_x,
                                      !.camera = [x |-> target_x + lag, target_x |-> target_x]]
    /\ before = game
    /\ pc = "update"
    /\ hold_i = 0
    /\ player = [adjusted_x |-> 0, touched |-> FALSE, tap |-> 0]
    /\ tick = 0
    /\ inp = NoInput
    /\ edge_age = MaxAge
    /\ edge_iter = MaxAge
    /\ sprites = NewSprites(FALSE)
    /\ level_platforms = Platforms
    /\ audio = NewAudio(SOUNDS)
    /\ started = <<>>
    /\ kong = NewKong
    /\ blink = NewBlink("random")

\* line 1081 with self.mario.x as the frame before left it
CameraRest ==
    /\ tick < MaxRestSteps
    /\ game' = [game EXCEPT !.camera = CameraUpdate(@, game.mario.x)]
    /\ before' = game
    /\ tick' = tick + 1
    /\ pc' = "draw"
    /\ UNCHANGED <<hold_i, player, inp, edge_age, edge_iter, sprites, level_platforms, audio, started, kong, blink>>

NextRest == CameraRest

SpecRest == InitRest /\ [][NextRest]_vars

\* ------------------------------------------------------------------------
\* AudioManager on its own: a manager with all, one or none of the clips
\* loaded; play() is called with any name and any outcome of its try block,
\* stop() is called with the DAC raising in its cleanup or not, and frames
\* pass.  For a play() call inp keeps the arguments, the outcome and the
\* manager the call found; after a stop() call pc is "stopped".
\* ------------------------------------------------------------------------
MaxAudioCalls == 3

Loaded == {SOUNDS, {"coin"}, {}}

Requested == {"jump", "coin", "stomp"}

InitAudio ==
    /\ game = NewGame
    /\ before = NewGame
    /\ pc = "update"
    /\ hold_i = 0
    /\ player = [adjusted_x |-> 0, touched |-> FALSE, tap |-> 0]
    /\ tick = 0
    /\ inp = NoInput
    /\ edge_age = MaxAge
    /\ edge_iter = MaxAge
    /\ sprites = NewSprites(FALSE)
    /\ level_platforms = Platforms
    /\ audio \in {NewAudio(sounds) : sounds \in Loaded}
    /\ started = <<>>
    /\ kong = NewKong
    /\ blink = NewBlink("random")

AudioPlayCall ==
    /\ tick < MaxAudioCalls
    /\ \E sound_name \in Requested, outcome \in PlayOutcomes :
        /\ audio' = AudioPlayWith(audio, sound_name, outcome)
        /\ inp' = [sound_name |-> sound_name, outcome |-> outcome, audio |-> audio]
    /\ tick' = tick + 1
    /\ pc' = "draw"
    /\ UNCHANGED <<game, hold_i, player, before, edge_age, edge_iter, sprites, level_platforms, started, kong, blink>>

AudioStopCall ==
    /\ \E stop_fails \in BOOLEAN : audio' = AudioStopWith(audio, stop_fails)
    /\ pc' = "stopped"
    /\ UNCHANGED <<game, hold_i, player, tick, inp, before, edge_age, edge_iter, sprites, level_platforms, started, kong, blink>>

AudioFramePasses ==
    /\ audio' = AudioElapse(audio, FRAME_MS)
    /\ pc' = "update"
    /\ UNCHANGED <<game, hold_i, player, tick, inp, before, edge_age, edge_iter, sprites, level_platforms, started, kong, blink>>

NextAudio == AudioPlayCall \/ AudioStopCall \/ AudioFramePasses

SpecAudio == InitAudio /\ [][NextAudio]_vars

\* ------------------------------------------------------------------------
\* MarioGame.update on its own, for any positions: a session with Mario
\* anywhere along the last stretch of the level or at its start, on the
\* ground or coming down, one live enemy near him or far away, 1 to 3 lives,
\* updated a few times with any readings of the controls
\* ------------------------------------------------------------------------
MaxAnywhereSteps == 2

AnywhereMarios ==
    {[NewMario(Px(x), y) EXCEPT !.on_ground = (y = GROUND_Y),
                                !.vel_y = IF y = GROUND_Y THEN 0 ELSE Px(3),
                                !.invincible = inv] :
        x \in {40, 2060, 2072, 2075, 2100}, y \in {GROUND_Y, Px(89)}, inv \in {0, 5}}

AnywhereOffsets == {-Px(10), Px(8), Px(300)}

AnywhereReadings ==
    {[NoInput EXCEPT !.adjusted_x = a, !.touched = t] : a \in {0, FullTilt}, t \in BOOLEAN}

InitAnywhere ==
    /\ \E m \in AnywhereMarios, o \in AnywhereOffsets, n \in 1..START_LIVES :
        game = [NewGame EXCEPT
                    !.mario = m,
                    !.level_enemies = <<[NewEnemy(1, m.x + o, Px(104)) EXCEPT !.on_ground = TRUE]>>,
                    !.lives = n]
    /\ before = game
    /\ pc = "update"
    /\ hold_i = 0
    /\ player = [adjusted_x |-> 0, touched |-> FALSE, tap |-> 0]
    /\ tick = 0
    /\ inp = NoInput
    /\ edge_age = MaxAge
    /\ edge_iter = MaxAge
    /\ sprites = NewSprites(FALSE)
    /\ level_platforms = Platforms
    /\ audio = NewAudio(SOUNDS)
    /\ started = <<>>
    /\ kong = NewKong
    /\ blink = NewBlink("random")

\* MarioGame.update
AnywhereStep ==
    /\ pc \in {"update", "draw"}
    /\ tick < MaxAnywhereSteps
    /\ \E in \in AnywhereReadings :
        /\ game' = GameUpdate(game, in)
        /\ inp' = in
    /\ before' = game
    /\ tick' = tick + 1
    /\ pc' = "draw"
    /\ UNCHANGED <<hold_i, player, edge_age, edge_iter, sprites, level_platforms, audio, started, kong, blink>>

NextAnywhere == AnywhereStep

SpecAnywhere == InitAnywhere /\ [][NextAnywhere]_vars

\* ------------------------------------------------------------------------
\* Iterations of the frame loop with any player: Mario starts landed on the
\* pipe at x = 900 (in the middle of its top or near its right edge) or on
\* the ground at the start of the level, and every iteration reads the button
\* pressed or released and the board level or tilted fully right
\* ------------------------------------------------------------------------
MaxPressSteps == 3

PressMarios ==
    {[NewMario(Px(900), Px(74)) EXCEPT !.on_ground = TRUE],
     [NewMario(Px(913), Px(74)) EXCEPT !.on_ground = TRUE],
     [NewMario(Px(915), Px(74)) EXCEPT !.on_ground = TRUE],
     [NewMario(MARIO_START_X, GROUND_Y) EXCEPT !.on_ground = TRUE]}

PressReadings ==
    {[pressed1 |-> b, adjusted_x |-> a, pressed2 |-> b, touched |-> FALSE] :
        a \in {0, FullTilt}, b \in BOOLEAN}

InitPress ==
    /\ \E m \in PressMarios : game = [NewGame EXCEPT !.mario = m]
    /\ before = game
    /\ pc = "loop"
    /\ hold_i = 0
    /\ player = [adjusted_x |-> 0, touched |-> FALSE, tap |-> 0]
    /\ tick = 0
    /\ inp = NoInput
    /\ edge_age = MaxAge
    /\ edge_iter = MaxAge
    /\ sprites = NewSprites(FALSE)
    /\ level_platforms = Platforms
    /\ audio = NewAudio(SOUNDS)
    /\ started = <<>>
    /\ kong = NewKong
    /\ blink = NewBlink("random")

\* run(), lines 1334-1336: the poll at the start of a frame, then update()
PressStep ==
    /\ pc \in {"loop", "draw"}
    /\ tick < MaxPressSteps
    /\ ~game.game_over
    /\ \E in \in PressReadings :
        \E polled \in {[game EXCEPT !.imu = PollButtonOnly(@, in.pressed1)]} :
            /\ game' = GameUpdate(polled, in)
            /\ inp' = in
            /\ before' = polled
            /\ edge_age' = IF Playing(game)
                           THEN AgeAfterUpdate(polled.imu, in.pressed2,
                                               AgeAfterPoll(game.imu, in.pressed1, edge_age))
                           ELSE AgeAfterPoll(game.imu, in.pressed1, edge_age)
            /\ edge_iter' = IF Playing(game) /\ PressEdge(polled.imu, in.pressed2)
                            THEN 0 ELSE IterAfterPoll(game.imu, in.pressed1, edge_iter)
    /\ tick' = tick + 1
    /\ pc' = "draw"
    /\ UNCHANGED <<hold_i, player, sprites, level_platforms, audio, started, kong, blink>>

NextPress == PressStep

SpecPress == InitPress /\ [][NextPress]_vars

\* ------------------------------------------------------------------------
\* draw() of the fixed level at any camera offset.  The platforms stand at
\* whole pixels, so every offset strictly between two whole pixels passes the
\* window tests exactly as the half pixel between them does: whole and half
\* pixels stand for all of [0, 1960].
\* ------------------------------------------------------------------------
WindowOffsets ==
    {Px(n) + h : n \in 0..(IntOf(WORLD_WIDTH - DISPLAY_WIDTH) - 1), h \in {0, Scale \div 2}}
        \cup {WORLD_WIDTH - DISPLAY_WIDTH}

InitWindow ==
    /\ \E cx \in WindowOffsets :
        game = [NewGame EXCEPT !.camera.x = cx, !.camera.target_x = cx]
    /\ sprites = NewSprites(FALSE)
    /\ level_platforms = Platforms
    /\ audio = NewAudio(SOUNDS)
    /\ started = <<>>
    /\ kong = NewKong
    /\ blink = NewBlink("random")
    /\ before = game
    /\ pc = "draw"
    /\ hold_i = 0
    /\ player = [adjusted_x |-> 0, touched |-> FALSE, tap |-> 0]
    /\ tick = 0
    /\ inp = NoInput
    /\ edge_age = MaxAge
    /\ edge_iter = MaxAge

\* MarioGame.draw
WindowDraw ==
    /\ pc = "draw"
    /\ sprites' = DrawSprites(sprites, game, level_platforms)
    /\ tick' = tick + 1
    /\ pc' = "loop"
    /\ UNCHANGED <<game, hold_i, player, inp, before, edge_age, edge_iter, level_platforms, audio, started, kong, blink>>

NextWindow == WindowDraw

SpecWindow == InitWindow /\ [][NextWindow]_vars

\* ------------------------------------------------------------------------
\* The Donkey Kong game: runs of its frame loop with the players of the
\* board: a player holds one tilt and taps the jump button with a fixed
\* period
\* ------------------------------------------------------------------------
MaxKongFrames == 450

KongPlayers == [adjusted_x : {-Px(2), 0, Px(2)}, touched : {FALSE}, tap : {0, 20}]

InitKong ==
    /\ kong = NewKong
    /\ player \in KongPlayers
    /\ blink = NewBlink("random")
    /\ game = NewGame
    /\ before = NewGame
    /\ pc = "loop"
    /\ hold_i = 0
    /\ tick = 0
    /\ inp = NoInput
    /\ edge_age = MaxAge
    /\ edge_iter = MaxAge
    /\ sprites = NewSprites(FALSE)
    /\ level_platforms = Platforms
    /\ audio = NewAudio(SOUNDS)
    /\ started = <<>>

\* one iteration of the main game loop
KongStep ==
    /\ tick < MaxKongFrames
    /\ kong' = KongFrame(kong, player.adjusted_x, ~ButtonDown)
    /\ tick' = tick + 1
    /\ UNCHANGED <<game, pc, hold_i, player, inp, before, edge_age, edge_iter, sprites,
                   level_platforms, audio, started, blink>>

NextKong == KongStep

SpecKong == InitKong /\ [][NextKong]_vars

\* ------------------------------------------------------------------------
\* The cooperative blink demo: asyncio.run(main())
\* ------------------------------------------------------------------------
InitBlink ==
    /\ blink \in {NewBlink(random) : random \in {"random", "off"}}
    /\ kong = NewKong
    /\ game = NewGame
    /\ before = NewGame
    /\ pc = "loop"
    /\ hold_i = 0
    /\ player = [adjusted_x |-> 0, touched |-> FALSE, tap |-> 0]
    /\ tick = 0
    /\ inp = NoInput
    /\ edge_age = MaxAge
    /\ edge_iter = MaxAge
    /\ sprites = NewSprites(FALSE)
    /\ level_platforms = Platforms
    /\ audio = NewAudio(SOUNDS)
    /\ started = <<>>

\* the event loop resumes a task
BlinkStep ==
    /\ \E i \in 1..NumTasks :
        /\ BlinkReady(blink, i)
        /\ blink' = BlinkResume(blink, i)
    /\ UNCHANGED <<game, pc, hold_i, player, tick, inp, before, edge_age, edge_iter, sprites,
                   level_platforms, audio, started, kong>>

\* gather returns when the five tasks have returned; main() prints
\* "Finished" (lines 43-44)
BlinkFinish ==
    /\ blink.main = "gather"
    /\ BlinkPending(blink) = {}
    /\ blink' = [blink EXCEPT !.main = "finished"]
    /\ UNCHANGED <<game, pc, hold_i, player, tick, inp, before, edge_age, edge_iter, sprites,
                   level_platforms, audio, started, kong>>

NextBlink == BlinkStep \/ BlinkFinish

\* the event loop resumes a task whenever one is pending
SpecBlink == InitBlink /\ [][NextBlink]_vars /\ WF_vars(NextBlink)

\* ------------------------------------------------------------------------
\* The game with a first player who runs to the right and taps the jump
\* button every third frame; the players of later level instances are those
\* of Spec.
\* ------------------------------------------------------------------------
SlowTap == JUMP_BUFFER_FRAMES
Tappers == [adjusted_x : {FullTilt}, touched : BOOLEAN, tap : {SlowTap}]

InitTap ==
    /\ game = NewGame
    /\ pc = "loop"
    /\ hold_i = 0
    /\ player \in Tappers
    /\ tick = 0
    /\ inp = NoInput
    /\ before = NewGame
    /\ edge_age = MaxAge
    /\ edge_iter = MaxAge
    /\ sprites \in {NewSprites(loaded) : loaded \in BOOLEAN}
    /\ level_platforms = Platforms
    /\ audio = NewAudio(SOUNDS)
    /\ started = <<>>
    /\ kong = NewKong
    /\ blink = NewBlink("random")

SpecTap == InitTap /\ [][Next]_vars

\* ------------------------------------------------------------------------
\* The game with a sensor whose read can fail.  IMUController.update() reads
\* self.icm.acceleration at line 604 outside any try block, and neither
\* MarioGame.update() (line 1067), run() (line 1336) nor the main block (lines
\* 1378-1380) has a handler, so an error raised by the read leaves all of
\* them: run() ends by the exception, pc = "raised", after the poll of line
\* 1064 and before anything else of the frame.
\* ------------------------------------------------------------------------
MaxFaultTicks == 30

ReadRaises ==
    /\ pc = "update"
    /\ Playing(game)
    /\ tick < MaxFaultTicks
    /\ game' = [game EXCEPT !.imu = PollButtonOnly(@, ButtonDown)]
    /\ edge_age' = AgeAfterPoll(game.imu, ButtonDown, edge_age)
    /\ edge_iter' = IF PressEdge(game.imu, ButtonDown) THEN 0 ELSE edge_iter
    /\ before' = game
    /\ pc' = "raised"
    /\ UNCHANGED <<hold_i, player, tick, inp, sprites, level_platforms, audio, started, kong, blink>>

UpdateEarly == tick < MaxFaultTicks /\ Update

NextFaulty == RunPoll \/ UpdateEarly \/ Draw \/ ReadRaises

SpecFaulty == Init /\ [][NextFaulty]_vars

\* ------------------------------------------------------------------------
\* Construction of the game.  MarioGame.__init__ (lines 892-922) builds the
\* IMUController at line 913; IMUController.__init__ looks for the sensor at
\* bus address 0x69 (lines 536-538), after any error at 0x68 (lines 539-542),
\* re-raises the error of the second attempt (lines 543-545), and with a
\* sensor found goes on to calibrate() (line 577).  player.bus is the set of
\* addresses at which a sensor answers; the reads of calibrate() are taken to
\* succeed.  While pc is "probe69", "probe68" or "calibrate" the game object
\* is under construction and `game` holds the values its fields are
\* constructed with; run() starts once construction has returned.
\* ------------------------------------------------------------------------
ADDRESS_FIRST == 105
ADDRESS_SECOND == 104
Buses == SUBSET {ADDRESS_FIRST, ADDRESS_SECOND}

InitBoot ==
    /\ game = NewGame
    /\ pc = "probe69"
    /\ hold_i = 0
    /\ player \in [adjusted_x : Tilts, touched : BOOLEAN, tap : Taps, bus : Buses]
    /\ tick = 0
    /\ inp = NoInput
    /\ before = NewGame
    /\ edge_age = MaxAge
    /\ edge_iter = MaxAge
    /\ sprites \in {NewSprites(loaded) : loaded \in BOOLEAN}
    /\ level_platforms = Platforms
    /\ audio = NewAudio(SOUNDS)
    /\ started = <<>>
    /\ kong = NewKong
    /\ blink = NewBlink("random")

\* lines 536-539
ProbeFirst ==
    /\ pc = "probe69"
    /\ pc' = IF ADDRESS_FIRST \in player.bus THEN "calibrate" ELSE "probe68"
    /\ UNCHANGED <<game, hold_i, player, tick, inp, before, edge_age, edge_iter, sprites, level_platforms, audio, started, kong, blink>>

ProbeSecond_NeverRaises ==
    /\ pc = "probe68"
    /\ pc' = "calibrate"
    /\ UNCHANGED <<game, hold_i, player, tick, inp, before, edge_age, edge_iter, sprites, level_platforms, audio, started, kong, blink>>

\* lines 540-545
ProbeSecond ==
    /\ pc = "probe68"
    /\ pc' = IF ADDRESS_SECOND \in player.bus THEN "calibrate" ELSE "raised"
    /\ UNCHANGED <<game, hold_i, player, tick, inp, before, edge_age, edge_iter, sprites, level_platforms, audio, started, kong, blink>>

\* lines 547-577 and 914-922, then lines 1379-1380 and 1311-1329: the rest of
\* the construction and the start of run()
Calibrate ==
    /\ pc = "calibrate"
    /\ pc' = "loop"
    /\ UNCHANGED <<game, hold_i, player, tick, inp, before, edge_age, edge_iter, sprites, level_platforms, audio, started, kong, blink>>

NextBoot == ProbeFirst \/ ProbeSecond \/ Calibrate \/ RunPoll \/ UpdateEarly \/ Draw

SpecBoot == InitBoot /\ [][NextBoot]_vars

\* ------------------------------------------------------------------------
\* IMUController on its own: any sequence of poll_button_only() and update()
\* calls with any button level, tilt and touch at each call
\* ------------------------------------------------------------------------
Readings == {0, (5 * Scale) \div 10, FullTilt, -FullTilt, (38 * Scale) \div 10,
             TILT_DEADZONE, -TILT_DEADZONE, -1 - TILT_DEADZONE, TILT_DEADZONE - 1,
             -(38 * Scale) \div 10, TILT_DEADZONE + TILT_MAX}

InitIMU ==
    /\ Init
    /\ player = [adjusted_x |-> 0, touched |-> FALSE, tap |-> 0]

IMUPoll ==
    /\ \E pressed \in BOOLEAN :
        /\ game' = [game EXCEPT !.imu = PollButtonOnly(@, pressed)]
        /\ edge_age' = AgeAfterPoll(game.imu, pressed, edge_age)
        /\ edge_iter' = edge_iter
        /\ inp' = [inp EXCEPT !.pressed1 = pressed]
    /\ pc' = "loop"
    /\ UNCHANGED <<hold_i, player, tick, before, sprites, level_platforms, audio, started, kong, blink>>

IMURead ==
    /\ \E pressed \in BOOLEAN, adjusted_x \in Readings, touched \in BOOLEAN :
        /\ game' = [game EXCEPT !.imu = IMUUpdate(@, adjusted_x, pressed, touched)]
        /\ edge_age' = AgeAfterUpdate(game.imu, pressed, edge_age)
        /\ edge_iter' = edge_iter
        /\ inp' = [inp EXCEPT !.pressed2 = pressed, !.adjusted_x = adjusted_x,
                              !.touched = touched]
    /\ pc' = "update"
    /\ UNCHANGED <<hold_i, player, tick, before, sprites, level_platforms, audio, started, kong, blink>>

NextIMU == IMUPoll \/ IMURead

SpecIMU == InitIMU /\ [][NextIMU]_vars

\* ------------------------------------------------------------------------
\* Camera.update on its own: Mario put at any x, also outside the world
\* ------------------------------------------------------------------------
MaxCameraSteps == 5

MarioXs == {Px(-500), -1, 0, Px(80), Px(81), Px(1000), Px(2040), Px(2200), Px(3000)}

InitCamera ==
    /\ Init
    /\ player = [adjusted_x |-> 0, touched |-> FALSE, tap |-> 0]

CameraFollow ==
    /\ tick < MaxCameraSteps
    /\ \E mario_x \in MarioXs :
        game' = [game EXCEPT !.mario.x = mario_x, !.camera = CameraUpdate(@, mario_x)]
    /\ before' = game
    /\ tick' = tick + 1
    /\ pc' = "draw"
    /\ UNCHANGED <<hold_i, player, inp, edge_age, edge_iter, sprites, level_platforms, audio, started, kong, blink>>

NextCamera == CameraFollow

SpecCamera == InitCamera /\ [][NextCamera]_vars

\* ------------------------------------------------------------------------
\* Mario.update on its own: the first half of one playing frame (lines
\* 1063-1081: the controls are read, Mario and the camera move) from any of a
\* grid of Mario states and control readings.  The grid keeps what the
\* program keeps: y <= GROUND_Y, and vel_y = 0 whenever on_ground is set.
\* ------------------------------------------------------------------------
GridXs == {-20, -10, 0, 40, 186, 192, 200, 214, 886, 900, 914,
           1392, 1400, 1408, 1416, 1430, 1448, 2040, 2060}

GridYs == {y \in -56..105 : y % 2 = 1 \/ y = 104}

GridVelYs == {Px(-10), Px(-6), (-46 * Scale) \div 10, (-6 * Scale) \div 10, 0,
              (2 * Scale) \div 10, Px(3), (56 * Scale) \div 10, (94 * Scale) \div 10, Px(10)}

MarioGrid ==
    {[NewMario(Px(x), Px(y)) EXCEPT !.vel_y = vy, !.on_ground = og] :
        x \in GridXs, y \in GridYs, vy \in GridVelYs, og \in BOOLEAN}

GridReadings ==
    {[NoInput EXCEPT !.adjusted_x = a, !.pressed2 = b] : a \in {0, FullTilt}, b \in BOOLEAN}

InitMario ==
    /\ \E m \in MarioGrid :
        /\ m.on_ground => m.vel_y = 0
        /\ game = [NewGame EXCEPT !.mario = m, !.imu.prev_jump = FALSE]
    /\ inp \in GridReadings
    /\ before = game
    /\ pc = "update"
    /\ hold_i = 0
    /\ player = [adjusted_x |-> 0, touched |-> FALSE, tap |-> 0]
    /\ tick = 0
    /\ edge_age = MaxAge
    /\ edge_iter = MaxAge
    /\ sprites = NewSprites(FALSE)
    /\ level_platforms = Platforms
    /\ audio = NewAudio(SOUNDS)
    /\ started = <<>>
    /\ kong = NewKong
    /\ blink = NewBlink("random")

MarioStep ==
    /\ pc = "update"
    /\ game' = MoveMario(ReadControls(game, inp))
    /\ before' = game
    /\ pc' = "draw"
    /\ UNCHANGED <<hold_i, player, tick, inp, edge_age, edge_iter, sprites, level_platforms, audio, started, kong, blink>>

NextMario == MarioStep

SpecMario == InitMario /\ [][NextMario]_vars

\* ------------------------------------------------------------------------
\* The enemy check of MarioGame.update on its own (lines 1089-1107): one
\* enemy, already moved by Enemy.update, against any of a grid of Marios
\* ------------------------------------------------------------------------
HitMarios ==
    {[NewMario(MARIO_START_X, Px(y)) EXCEPT !.vel_y = vy, !.invincible = inv] :
        y \in {80, 88, 89, 100, 104, 105}, vy \in {Px(-6), 0, GRAVITY, Px(10)},
        inv \in {0, 1, INVINCIBLE_FRAMES - 1}}

HitEnemies ==
    {[NewEnemy(1, Px(x), Px(y)) EXCEPT !.alive = a, !.on_ground = TRUE] :
        x \in {23, 24, 25, 40, 55, 56, 57}, y \in {100, 104}, a \in BOOLEAN}

InitInteract ==
    /\ \E m \in HitMarios, e \in HitEnemies, n \in 1..START_LIVES :
        game = [NewGame EXCEPT !.mario = m, !.level_enemies = <<e>>, !.lives = n]
    /\ before = game
    /\ pc = "update"
    /\ hold_i = 0
    /\ player = [adjusted_x |-> 0, touched |-> FALSE, tap |-> 0]
    /\ tick = 0
    /\ inp = NoInput
    /\ edge_age = MaxAge
    /\ edge_iter = MaxAge
    /\ sprites = NewSprites(FALSE)
    /\ level_platforms = Platforms
    /\ audio = NewAudio(SOUNDS)
    /\ started = <<>>
    /\ kong = NewKong
    /\ blink = NewBlink("random")

InteractStep ==
    /\ pc = "update"
    /\ game' = EnemyInteract([game EXCEPT !.level_enemies = <<>>], game.level_enemies[1])
    /\ before' = game
    /\ pc' = "draw"
    /\ UNCHANGED <<hold_i, player, tick, inp, edge_age, edge_iter, sprites, level_platforms, audio, started, kong, blink>>

NextInteract == InteractStep

SpecInteract == InitInteract /\ [][NextInteract]_vars

\* ------------------------------------------------------------------------
\* The fall death check of MarioGame.update on its own (lines 1136-1147), for
\* sessions with Mario at and below the bottom of the display.  In a run of
\* the game the ground plane of Mario.update keeps mario.y <= GROUND_Y, so
\* this is the only way to see the check fire.
\* ------------------------------------------------------------------------
FallMarios ==
    {[NewMario(Px(x), y) EXCEPT !.vel_y = TERMINAL_VEL, !.invincible = inv] :
        x \in {-20, 40, 1000},
        y \in {GROUND_Y, DISPLAY_HEIGHT, DISPLAY_HEIGHT + 1, Px(136), Px(200)},
        inv \in {0, 57}}

InitFall ==
    /\ \E m \in FallMarios, n \in 1..START_LIVES, sc \in {0, 300} :
        game = [NewGame EXCEPT !.mario = m, !.lives = n, !.score = sc]
    /\ before = game
    /\ pc = "update"
    /\ hold_i = 0
    /\ player = [adjusted_x |-> 0, touched |-> FALSE, tap |-> 0]
    /\ tick = 0
    /\ inp = NoInput
    /\ edge_age = MaxAge
    /\ edge_iter = MaxAge
    /\ sprites = NewSprites(FALSE)
    /\ level_platforms = Platforms
    /\ audio = NewAudio(SOUNDS)
    /\ started = <<>>
    /\ kong = NewKong
    /\ blink = NewBlink("random")

FallStep ==
    /\ pc = "update"
    /\ game' = FallDeath(game)
    /\ before' = game
    /\ pc' = "draw"
    /\ UNCHANGED <<hold_i, player, tick, inp, edge_age, edge_iter, sprites, level_platforms, audio, started, kong, blink>>

NextFall == FallStep

SpecFall == InitFall /\ [][NextFall]_vars

\* ------------------------------------------------------------------------
\* MarioGame.draw on its own: draw() calls on scenes that are denser than the
\* fixed level, so that the pools run full.  A scene is a camera position and
\* lists of platforms, enemies and coins spread over the columns around the
\* window, some enemies dead, some coins collected, some positions fractional.
\* ------------------------------------------------------------------------
MaxDraws == 2

ScenePlatforms(n) ==
    [i \in 1..n |-> Platform(Px(40 * ((i - 1) % 12) - 80), Px(8 * ((i - 1) \div 12)),
                             BLOCK_SIZE, BLOCK_SIZE, "brick")]

SceneEnemies(n) ==
    [i \in 1..n |-> [NewEnemy(i, Px(25 * (i - 1) - 95) + 2 * (Scale \div 5), GROUND_Y)
                        EXCEPT !.alive = (i % 4 # 0)]]

SceneCoins(n) ==
    [i \in 1..n |-> [x |-> Px(13 * (i - 1) - 78), y |-> Px(50), collected |-> (i % 5 = 0)]]

SceneCameras == {0, Px(100) + Scale \div 2}

Scenes == [platforms : {0, 60, 101}, enemies : {0, 7, 16}, coins : {8, 30}, camera_x : SceneCameras]

SceneGame(sc) ==
    [NewGame EXCEPT !.level_enemies = SceneEnemies(sc.enemies),
                    !.level_coins = SceneCoins(sc.coins),
                    !.camera.x = sc.camera_x, !.camera.target_x = sc.camera_x]

InitDraw ==
    /\ \E sc \in Scenes :
        /\ game = SceneGame(sc)
        /\ level_platforms = ScenePlatforms(sc.platforms)
        /\ audio = NewAudio(SOUNDS)
        /\ started = <<>>
        /\ kong = NewKong
        /\ blink = NewBlink("random")
    /\ sprites \in {NewSprites(loaded) : loaded \in BOOLEAN}
    /\ before = game
    /\ pc = "draw"
    /\ hold_i = 0
    /\ player = [adjusted_x |-> 0, touched |-> FALSE, tap |-> 0]
    /\ tick = 0
    /\ inp = NoInput
    /\ edge_age = MaxAge
    /\ edge_iter = MaxAge

DrawStep ==
    /\ pc = "draw"
    /\ sprites' = DrawSprites(sprites, game, level_platforms)
    /\ tick' = tick + 1
    /\ pc' = "loop"
    /\ UNCHANGED <<game, hold_i, player, inp, before, edge_age, edge_iter, level_platforms, audio, started, kong, blink>>

\* another scene comes into view
NextScene ==
    /\ pc = "loop"
    /\ tick < MaxDraws
    /\ \E sc \in Scenes :
        /\ game' = SceneGame(sc)
        /\ level_platforms' = ScenePlatforms(sc.platforms)
    /\ before' = game
    /\ pc' = "draw"
    /\ UNCHANGED <<hold_i, player, tick, inp, edge_age, edge_iter, sprites, audio, started, kong, blink>>

NextDraw == DrawStep \/ NextScene

SpecDraw == InitDraw /\ [][NextDraw]_vars

\* ------------------------------------------------------------------------
\* The platform loops of Mario.update and Enemy.update on their own (lines
\* 486-503 and 319-352): Mario and one enemy, already moved, at any pixel of
\* the world and a little beyond it, on and off the pixel grid
\* ------------------------------------------------------------------------
NearXs == {Px(k) + o : k \in -120..2320, o \in {0, 1}}

NearYs == {Px(-200), Px(-50), Px(25), Px(42) - 1, Px(89), Px(104), GROUND_Y, Px(140)}

InitNear ==
    /\ \E x \in NearXs, y \in NearYs :
        game = [NewGame EXCEPT
                    !.mario = [NewMario(x, y) EXCEPT !.vel_y = Px(3)],
                    !.level_enemies = <<[NewEnemy(1, x, y) EXCEPT !.vel_y = GRAVITY]>>]
    /\ before = game
    /\ pc = "update"
    /\ hold_i = 0
    /\ player = [adjusted_x |-> 0, touched |-> FALSE, tap |-> 0]
    /\ tick = 0
    /\ inp = NoInput
    /\ edge_age = MaxAge
    /\ edge_iter = MaxAge
    /\ sprites = NewSprites(FALSE)
    /\ level_platforms = Platforms
    /\ audio = NewAudio(SOUNDS)
    /\ started = <<>>
    /\ kong = NewKong
    /\ blink = NewBlink("random")

NearStep ==
    /\ pc = "update"
    /\ game' = [game EXCEPT
                    !.mario = GroundCollision(MarioPlatformLoop(@, @.y - @.vel_y)),
                    !.level_enemies = <<EnemyWallLoop(EnemyGroundLoop(@[1]))>>]
    /\ before' = game
    /\ pc' = "draw"
    /\ UNCHANGED <<hold_i, player, tick, inp, edge_age, edge_iter, sprites, level_platforms, audio, started, kong, blink>>

NextNear == NearStep

SpecNear == InitNear /\ [][NextNear]_vars

\* ========================================================================
\* Properties
\* ========================================================================
\* An update() call has just returned: `before` is the session it found,
\* `inp` the readings it took, `game` the session it left.
Updated == pc = "draw"

\* ... and it was a playing frame of Spec
Played == Updated /\ Playing(before)

\* ... and it was a frame of the level instance that `before` belongs to (the
\* call did not end in reset_level)
SameLevel == Updated /\ ~(~before.game_over /\ before.level_complete /\ before.victory_timer = 1)

ControlReadings ==
    [pressed1 : BOOLEAN, adjusted_x : Readings, pressed2 : BOOLEAN, touched : BOOLEAN]

NumCollected(g) == Cardinality({i \in 1..Len(g.level_coins) : g.level_coins[i].collected})

DeadIds(g) == {g.level_enemies[i].id : i \in {j \in 1..Len(g.level_enemies) : ~g.level_enemies[j].alive}}

\* the enemies that update() stomped: alive before the call, dead after it
NumStomped == Cardinality(DeadIds(game) \ DeadIds(before))

\* Mario.update's arguments in the call, and Mario as its integration step
\* (lines 440-484) left him, before any collision was resolved
Controls == ReadControls(before, inp)

MarioIntegrated == MarioIntegrate(Controls.mario, Controls.imu)

\* Mario as Mario.update left him in the call, before the enemy loop
MarioMoved == MoveMario(ReadControls(before, inp)).mario

\* the enemies of `before` that are alive, stay in the list and overlap Mario
\* at their check in the call
LiveHits ==
    {i \in 1..Len(before.level_enemies) :
        LET r == EnemyUpdate(before.level_enemies[i])
        IN  /\ before.level_enemies[i].alive
            /\ ~r.remove
            /\ MarioHitsEnemy(MarioMoved, r.e)}

\* C1: once lives reach 0 game_over is true; a session with game_over set is
\* never changed again, by update() with any readings or by anything else.
C1_GameOverIsTerminal ==
    /\ [](game.lives <= 0 => game.game_over)
    /\ [](game.game_over => \A in \in ControlReadings : GameUpdate(game, in) = game)
    /\ [][game.game_over => game' = game]_vars

C1_Witness == game.game_over /\ game.lives = 0 /\ pc = "hold" /\ hold_i = HOLD_FRAMES

\* C2: the update() in which mario.x reaches 2075 sets level_complete and
\* victory_timer = 180, the timer is set at no other time, each later update()
\* decreases it by 1, and the one that makes it 0 leaves the initial session.
C2_LevelCompleteThenReset ==
    /\ game.mario.x >= LEVEL_END_X => game.level_complete
    /\ Updated =>
        /\ (~before.level_complete /\ game.level_complete) => game.victory_timer = 180
        /\ game.victory_timer > before.victory_timer =>
                ~before.level_complete /\ game.level_complete
        /\ (~before.game_over /\ before.level_complete /\ before.victory_timer > 1) =>
                game.level_complete /\ game.victory_timer = before.victory_timer - 1
        /\ (~before.game_over /\ before.level_complete /\ before.victory_timer = 1) =>
                /\ Len(game.level_enemies) = 7
                /\ \A i \in 1..7 : game.level_enemies[i].alive
                /\ Len(game.level_coins) = 8
                /\ \A i \in 1..8 : ~game.level_coins[i].collected
                /\ game.level_enemies = NewGame.level_enemies
                /\ game.level_coins = NewGame.level_coins
                /\ game.mario = NewGame.mario
                /\ game.mario.x = Px(40) /\ game.mario.y = Px(105)
                /\ game.camera.x = 0
                /\ game.score = 0 /\ game.coins = 0 /\ game.lives = 3
                /\ ~game.level_complete /\ game.victory_timer = 0

C2_Witness ==
    /\ Updated
    /\ before.level_complete /\ before.victory_timer = 1 /\ before.score > 0
    /\ ~game.level_complete /\ game.score = 0 /\ game.lives = 3

C4_Invincibility ==
    Played =>
        LET n == before.mario.invincible
            a == game.mario.invincible
        IN  /\ n >= 2 =>
                /\ a = n - 1
                /\ game.lives = before.lives
                /\ DeadIds(game) = DeadIds(before)
                /\ game.score - before.score = COIN_SCORE * (game.coins - before.coins)
            /\ n = 1 => a \in {0, INVINCIBLE_FRAMES}
            /\ a > n => a = INVINCIBLE_FRAMES /\ n <= 1 /\ game.lives = before.lives - 1
            /\ game.lives < before.lives => a = INVINCIBLE_FRAMES
            /\ game.lives >= before.lives - 1

\* a frame in which Mario, invincible, overlapped a live enemy at its check
C4_Witness ==
    /\ Played
    /\ before.mario.invincible >= 2
    /\ game.mario.invincible = before.mario.invincible - 1
    /\ LiveHits # {}

\* C5: within a level instance a collected coin stays collected, coins grows by
\* the number of coins collected in the call and score by 200 for each of them
\* (and 100 for each stomp); a coin collected earlier adds nothing, overlapped
\* or not.
C5_CoinsCountOnce ==
    SameLevel =>
        LET new == {i \in 1..Len(game.level_coins) :
                        game.level_coins[i].collected /\ ~before.level_coins[i].collected}
        IN  /\ Len(game.level_coins) = Len(before.level_coins)
            /\ \A i \in 1..Len(before.level_coins) :
                    before.level_coins[i].collected => game.level_coins[i].collected
            /\ game.coins = before.coins + Cardinality(new)
            /\ game.score = before.score + COIN_SCORE * Cardinality(new)
                                + STOMP_SCORE * NumStomped

\* a playing frame in which Mario overlapped a coin collected before the frame
C5_Witness ==
    /\ Played
    /\ \E i \in 1..Len(before.level_coins) :
        /\ before.level_coins[i].collected
        /\ MarioHitsCoin(game.mario, game.level_coins[i])
    /\ game.coins = before.coins

\* C6: a dead enemy stays in the list as it is (its alive flag stays false),
\* and a playing frame in which no live enemy overlaps Mario brings no stomp
\* and no damage: lives, the stomp score, vel_y and invincible are as
\* Mario.update left them, whatever dead enemy Mario overlaps.
C6_DeadEnemyIsInert ==
    /\ SameLevel =>
        \A i \in 1..Len(before.level_enemies) :
            ~before.level_enemies[i].alive =>
                \E j \in 1..Len(game.level_enemies) :
                    game.level_enemies[j] = before.level_enemies[i]
    /\ (Played /\ LiveHits = {}) =>
        /\ game.lives = before.lives
        /\ game.score - before.score = COIN_SCORE * (game.coins - before.coins)
        /\ game.mario.vel_y = MarioMoved.vel_y
        /\ game.mario.invincible = MarioMoved.invincible

\* a playing frame in which Mario, not invincible, overlapped a dead enemy
C6_Witness ==
    /\ Played
    /\ MarioMoved.invincible = 0
    /\ \E i \in 1..Len(before.level_enemies) :
        /\ ~before.level_enemies[i].alive
        /\ MarioHitsEnemy(game.mario, before.level_enemies[i])

\* C7: a live enemy that overlaps Mario while invincible = 0 is stomped if
\* vel_y > 0 and mario.y < enemy.y (enemy dead, score + 100, vel_y = -6, lives
\* and invincible unchanged) and damages Mario otherwise (lives - 1,
\* invincible = 120, score, vel_y and the enemy unchanged).
C7_StompOrDamage ==
    Updated =>
        LET m == before.mario
            e == before.level_enemies[1]
            e2 == game.level_enemies[1]
        IN  (e.alive /\ m.invincible = 0 /\ MarioHitsEnemy(m, e)) =>
                IF m.vel_y > 0 /\ m.y < e.y
                THEN /\ ~e2.alive
                     /\ game.score = before.score + 100
                     /\ game.mario.vel_y = Px(-6)
                     /\ game.lives = before.lives
                     /\ game.mario.invincible = 0
                ELSE /\ game.lives = before.lives - 1
                     /\ game.mario.invincible = 120
                     /\ game.score = before.score
                     /\ e2 = e
                     /\ game.mario.vel_y = m.vel_y

\* Mario, at rest above a live enemy that he overlaps, was damaged
C7_Witness ==
    /\ Updated
    /\ before.level_enemies[1].alive
    /\ before.mario.invincible = 0
    /\ before.mario.vel_y = 0
    /\ before.mario.y < before.level_enemies[1].y
    /\ MarioHitsEnemy(before.mario, before.level_enemies[1])
    /\ game.lives = before.lives - 1

\* C8: after every Camera.update(mario_x), for mario_x left of the world, in
\* it and right of it, camera.x and camera.target_x are within [0, 1960].
C8_CameraInRange ==
    Updated =>
        /\ 0 <= game.camera.x /\ game.camera.x <= Px(1960)
        /\ 0 <= game.camera.target_x /\ game.camera.target_x <= Px(1960)

\* the camera, scrolled right, followed a Mario far left of the world
C8_Witness ==
    /\ Updated
    /\ game.mario.x < -Px(240)
    /\ before.camera.x > Px(240)
    /\ game.camera.target_x = 0
    /\ game.camera.x < before.camera.x

\* C9: for every platform of the level: if Mario's bottom edge before the
\* call was not below the platform's top, vel_y >= 0 after the integration
\* and the moved box overlaps the platform's box, Mario.update leaves Mario
\* standing on it: y = platform.y - 16 and vel_y = 0.
C9_LandsOnTop ==
    Played =>
        LET moved == MarioIntegrated
            after == MarioMoved
        IN  \A i \in 1..NumPlatforms :
                (/\ before.mario.y + Px(16) <= Platforms[i].y
                 /\ moved.vel_y >= 0
                 /\ MarioOverlaps(moved, Platforms[i]))
                => (after.y = Platforms[i].y - Px(16) /\ after.vel_y = 0)

\* Mario came down on a platform above the ground row
C9_Witness ==
    /\ Played
    /\ LET moved == MarioIntegrated
       IN  \E i \in 1..NumPlatforms :
            /\ Platforms[i].y < GROUND_Y
            /\ before.mario.y + Px(16) <= Platforms[i].y
            /\ moved.vel_y > 0
            /\ MarioOverlaps(moved, Platforms[i])
            /\ game.mario.y = Platforms[i].y - Px(16)
            /\ game.mario.on_ground

\* C10 as claimed: after Mario.update y <= 105, and whenever the integrated
\* position reaches or passes GROUND_Y the result is y = 105, vel_y = 0 and
\* on_ground, whatever the platform loop did.
C10_GroundAlwaysWins ==
    Played =>
        LET after == MarioMoved
        IN  /\ after.y <= GROUND_Y
            /\ MarioIntegrated.y >= GROUND_Y =>
                after.y = Px(105) /\ after.vel_y = 0 /\ after.on_ground

\* C10 as the code has it: after Mario.update y <= 105, and whenever the
\* integrated position reaches or passes GROUND_Y the result is vel_y = 0 and
\* on_ground with y = 105, unless the platform loop put Mario on top of a
\* platform above the plane, where he stays (y = platform.y - 16 < 105).
C10_GroundOrPlatformWins ==
    Played =>
        LET moved == MarioIntegrated
            after == MarioMoved
        IN  /\ after.y <= GROUND_Y
            /\ moved.y >= GROUND_Y =>
                /\ after.vel_y = 0
                /\ after.on_ground
                /\ \/ after.y = Px(105)
                   \/ \E i \in 1..NumPlatforms :
                        /\ MarioOverlaps(moved, Platforms[i])
                        /\ LandsOn(moved, Platforms[i], before.mario.y)
                        /\ after.y = Platforms[i].y - Px(16)
                        /\ after.y < Px(105)

\* Mario, falling, sank past the plane and was put back on it
C10_Witness ==
    /\ Played
    /\ ~before.mario.on_ground
    /\ MarioIntegrated.y > GROUND_Y
    /\ MarioIntegrated.vel_y > 0
    /\ game.mario.y = GROUND_Y /\ game.mario.vel_y = 0 /\ game.mario.on_ground

\* C11: when mario.y > 135 at the fall death check, lives drops by 1 in that
\* call; if a life is left Mario is back at (40, 105) with invincible = 120
\* and the game goes on, otherwise game_over is set.
C11_FallCostsALife ==
    (Updated /\ before.mario.y > Px(135)) =>
        /\ game.lives = before.lives - 1
        /\ IF game.lives > 0
           THEN /\ game.mario.x = Px(40) /\ game.mario.y = Px(105)
                /\ game.mario.invincible = 120
                /\ ~game.game_over
           ELSE game.game_over

\* Mario, just below the display with lives left, was put back at the start
C11_Witness ==
    /\ Updated
    /\ before.mario.y > DISPLAY_HEIGHT /\ before.mario.y <= Px(136)
    /\ before.lives = 2 /\ game.lives = 1
    /\ game.mario.y = GROUND_Y /\ game.mario.invincible = INVINCIBLE_FRAMES

\* A draw() call has just returned.
Drawn == pc = "loop" /\ tick > 0

NumShown(pool) == Cardinality({i \in 1..Len(pool) : ~pool[i].hidden})

\* C12: after every draw(), however many entities are in the window, the
\* slot index of each sweep has stayed within its pool (at most 75, 10, 20),
\* the pools have kept their sizes, and the slots made visible are as many
\* as the slot index says; what did not fit is not drawn.
C12_PoolCapacity ==
    Drawn =>
        /\ sprites.used_platform_sprites <= 75
        /\ sprites.used_enemy_sprites <= 10
        /\ sprites.used_coin_sprites <= 20
        /\ Len(sprites.platform_sprites) = 75
        /\ Len(sprites.enemy_sprites) = 10
        /\ Len(sprites.coin_sprites) = 20
        /\ NumShown(sprites.platform_sprites) = sprites.used_platform_sprites
        /\ NumShown(sprites.enemy_sprites) = sprites.used_enemy_sprites
        /\ NumShown(sprites.coin_sprites) = sprites.used_coin_sprites

\* a draw() with more platforms, more live enemies and more uncollected coins
\* in the window than the pools hold
C12_Witness ==
    /\ Drawn
    /\ Cardinality(ShownPlatforms(level_platforms, game.camera.x)) > PLATFORM_POOL
    /\ Cardinality(ShownEnemies(game.level_enemies, game.camera.x)) > ENEMY_POOL
    /\ Cardinality(ShownCoins(game.level_coins, game.camera.x)) > COIN_POOL
    /\ NumShown(sprites.platform_sprites) = PLATFORM_POOL
    /\ NumShown(sprites.enemy_sprites) = ENEMY_POOL
    /\ NumShown(sprites.coin_sprites) = COIN_POOL

\* the box [x, x + w) meets the open window (camera.x - 64, camera.x + 240 + 64)
InView(x, w) == x + w > game.camera.x - Px(64) /\ x < game.camera.x + Px(240 + 64)

\* the i-th smallest element of a set of list positions
Nth(S, i) == CHOOSE j \in S : Cardinality({k \in S : k <= j}) = i

\* pool shows exactly the entities of es at the positions of S, in list
\* order, as far as it has slots, and hides its other slots
ShowsInOrder(pool, es, S, size) ==
    LET k == Min(Cardinality(S), size)
    IN  /\ Len(pool) = size
        /\ \A i \in 1..size :
            IF i <= k
            THEN /\ ~pool[i].hidden
                 /\ pool[i].x = IntOf(es[Nth(S, i)].x - game.camera.x)
                 /\ pool[i].y = IntOf(es[Nth(S, i)].y)
            ELSE pool[i].hidden

\* C13: after every draw(), in each category the visible slots are the first
\* k, k = min(number of drawable entities in the window, pool size), slot i
\* is at (int(x - camera.x), int(y)) of the i-th such entity in list order,
\* every other slot is hidden; collected coins and dead enemies take no slot.
C13_SlotsInListOrder ==
    Drawn =>
        /\ ShowsInOrder(sprites.platform_sprites, level_platforms,
                {j \in 1..Len(level_platforms) :
                    InView(level_platforms[j].x, level_platforms[j].width)}, 75)
        /\ ShowsInOrder(sprites.enemy_sprites, game.level_enemies,
                {j \in 1..Len(game.level_enemies) :
                    game.level_enemies[j].alive /\ InView(game.level_enemies[j].x, Px(16))}, 10)
        /\ ShowsInOrder(sprites.coin_sprites, game.level_coins,
                {j \in 1..Len(game.level_coins) :
                    ~game.level_coins[j].collected /\ InView(game.level_coins[j].x, Px(8))}, 20)

\* a second draw() that shows fewer enemies and coins than the one before
\* it, with dead enemies and collected coins in the window
C13_Witness ==
    /\ Drawn
    /\ tick = 2
    /\ sprites.used_enemy_sprites \in 1..(ENEMY_POOL - 1)
    /\ sprites.used_coin_sprites \in 1..(COIN_POOL - 1)
    /\ \E i \in (sprites.used_enemy_sprites + 1)..ENEMY_POOL : sprites.enemy_sprites[i].x # 0
    /\ \E i \in (sprites.used_coin_sprites + 1)..COIN_POOL : sprites.coin_sprites[i].x # 0
    /\ \E j \in 1..Len(game.level_enemies) :
        ~game.level_enemies[j].alive /\ InView(game.level_enemies[j].x, ENEMY_WIDTH)
    /\ \E j \in 1..Len(game.level_coins) :
        game.level_coins[j].collected /\ InView(game.level_coins[j].x, COIN_WIDTH)

\* the identities of the enemies in the list of session g
EnemyIds(g) == {g.level_enemies[i].id : i \in 1..Len(g.level_enemies)}

\* C14: within a level instance update() never makes the enemy list longer:
\* it keeps the enemies in their order, adds none, and removes exactly those
\* for which Enemy.update returned true; only reset_level brings back 7.
C14_EnemiesOnlyLeave ==
    /\ Len(game.level_enemies) <= 7
    /\ Cardinality(EnemyIds(game)) = Len(game.level_enemies)
    /\ SameLevel =>
        /\ Len(game.level_enemies) <= Len(before.level_enemies)
        /\ EnemyIds(game) \subseteq EnemyIds(before)
        /\ \A i \in 1..Len(before.level_enemies) :
            LET e == before.level_enemies[i]
            IN  (e.id \in EnemyIds(game)) <=> ~(Playing(before) /\ EnemyUpdate(e).remove)
        /\ \A i, j \in 1..Len(game.level_enemies) :
            i < j => game.level_enemies[i].id < game.level_enemies[j].id
    /\ (Updated /\ Len(game.level_enemies) > Len(before.level_enemies)) =>
        /\ before.level_complete /\ before.victory_timer = 1
        /\ game.level_enemies = LevelEnemies

\* an update() removed the one enemy that had fallen out of the world and
\* kept the six others
C14_Witness ==
    /\ Played
    /\ Len(before.level_enemies) = 7
    /\ Len(game.level_enemies) = 6
    /\ \E i \in 1..7 : EnemyUpdate(before.level_enemies[i]).remove

\* Mario at rest on the ground when Mario.update is called with no tilt and
\* the jump flag set
JumpsFromRest ==
    /\ Updated
    /\ before.mario.on_ground
    /\ before.mario.vel_y = 0
    /\ Controls.imu.tilt_value = 0
    /\ Controls.imu.jump

\* Mario.update called again on the session as it is now, with readings in
NextMarioUpdate(in) == MoveMario(ReadControls(game, in)).mario

\* C15 as stated: the update that starts the jump leaves vel_y at
\* JUMP_STRENGTH and on_ground false, and the update after it adds GRAVITY.
C15_JumpAtFullStrength ==
    JumpsFromRest =>
        /\ game.mario.vel_y = JUMP_STRENGTH
        /\ ~game.mario.on_ground
        /\ \A in \in GridReadings :
            NextMarioUpdate(in).vel_y = game.mario.vel_y + GRAVITY

\* no platform hangs over Mario with its underside within the rise of a
\* jump's first two updates (reach), so that neither update runs lines 519-524;
\* side is how far he may move sideways meanwhile
ClearAbove(m, reach, side) ==
    \A i \in 1..NumPlatforms :
        LET p == Platforms[i]
        IN  ~ /\ m.x + MARIO_WIDTH + side > p.x
              /\ m.x - side < p.x + p.width
              /\ p.y + p.height <= m.y
              /\ p.y + p.height > m.y - reach

\* C15: the update that starts the jump sets vel_y to JUMP_STRENGTH and adds
\* GRAVITY to it before it returns (lines 467-478), so with nothing overhead
\* it leaves vel_y at JUMP_STRENGTH + GRAVITY with on_ground false, and Mario
\* one step of that velocity higher; the update after it adds GRAVITY once
\* more.  Under a platform whose underside he touches (the second stair block
\* over the ground plane) the same update stops him and puts him back down.
C15_JumpThenGravity ==
    JumpsFromRest =>
        /\ ClearAbove(before.mario, -(2 * JUMP_STRENGTH + 3 * GRAVITY), RUN_SPEED) =>
            /\ game.mario.vel_y = JUMP_STRENGTH + GRAVITY
            /\ game.mario.y = before.mario.y + JUMP_STRENGTH + GRAVITY
            /\ ~game.mario.on_ground
            /\ game.mario.jump_triggered
            /\ \A in \in GridReadings :
                NextMarioUpdate(in).vel_y = game.mario.vel_y + GRAVITY
        /\ (before.mario.y = GROUND_Y /\ ~ClearAbove(before.mario, 1, 0)) =>
            game.mario = [before.mario EXCEPT !.on_ground = TRUE, !.sprite_frame = 2]

\* Mario stood on the ground plane, jumped, and is in the air at -9.4
C15_Witness ==
    /\ JumpsFromRest
    /\ before.mario.y = GROUND_Y
    /\ ~game.mario.on_ground
    /\ game.mario.vel_y = JUMP_STRENGTH + GRAVITY

\* the enemy spawned first (at x = 150) as session g holds it: a set with that
\* enemy, or empty once update() removed it from the list
FirstEnemy(g) ==
    {g.level_enemies[i] : i \in {j \in 1..Len(g.level_enemies) : g.level_enemies[j].id = 1}}

\* x is flush to a side of some platform, where lines 347-350 put an enemy
AtPlatformEdge(x) ==
    \E i \in 1..NumPlatforms :
        x = Platforms[i].x - ENEMY_WIDTH \/ x = Platforms[i].x + Platforms[i].width

\* C16: while the enemy spawned at x = 150 is alive it keeps patrolling: each
\* playing update() leaves it in the level, standing on a platform, and with
\* the vel_x it had unless it is flush to a platform edge with vel_x negated.
C16_PatrolsUntilEdgeFlips ==
    (Played /\ SameLevel) =>
        \A e \in FirstEnemy(before) :
            e.alive =>
                /\ FirstEnemy(game) # {}
                /\ \A a \in FirstEnemy(game) :
                    /\ a.on_ground
                    /\ \/ a.vel_x = e.vel_x
                       \/ a.vel_x = -e.vel_x /\ AtPlatformEdge(a.x)

\* the enemy spawned at x = 150 still walks left as it was spawned, has left
\* the ground row by its left end and is removed by this update()
C16_Witness ==
    /\ Played /\ SameLevel
    /\ FirstEnemy(game) = {}
    /\ \E e \in FirstEnemy(before) :
        /\ e.alive
        /\ e.vel_x = Px(-1)
        /\ e.x + ENEMY_WIDTH <= 0
        /\ EnemyUpdate(e).remove

\* in SpecIMU: IMUController.update has just returned; inp holds what it read
SensorRead == pc = "update"

\* C17: after every IMUController.update tilt_value is in [-1, 1]; it is 0
\* whenever |adjusted_x| < TILT_DEADZONE; otherwise its magnitude is
\* min(1, (|adjusted_x| - TILT_DEADZONE) / TILT_MAX) and its sign that of
\* adjusted_x; left and right are never both true, and say which side of the
\* deadzone the reading is on.
C17_TiltMapping ==
    LET a == inp.adjusted_x
        t == game.imu.tilt_value
    IN  /\ t >= -Scale /\ t <= Scale
        /\ ~(game.imu.left /\ game.imu.right)
        /\ SensorRead =>
            /\ Abs(a) < TILT_DEADZONE => t = 0
            /\ Abs(a) >= TILT_DEADZONE =>
                /\ Abs(t) = Min(Scale, RoundDiv((Abs(a) - TILT_DEADZONE) * Scale, TILT_MAX))
                /\ t > 0 => a > 0
                /\ t < 0 => a < 0
            /\ game.imu.right <=> a >= TILT_DEADZONE
            /\ game.imu.left <=> a <= -TILT_DEADZONE

\* a reading of -3.8 was mapped to half tilt to the left
C17_Witness ==
    /\ SensorRead
    /\ inp.adjusted_x = -(38 * Scale) \div 10
    /\ game.imu.tilt_value = -(Scale \div 2)
    /\ game.imu.left /\ ~game.imu.right

\* the platforms whose box overlaps Mario m / that enemy e is over
MarioTouches(m) == {i \in 1..NumPlatforms : MarioOverlaps(m, Platforms[i])}

EnemyTouches(e) == {i \in 1..NumPlatforms : EnemyOverX(e, Platforms[i])}

\* C18: in the fixed level, wherever Mario or an enemy is, the proximity
\* filters skip no platform that matters: a platform whose box overlaps Mario
\* is never skipped by the test of line 492, and a platform an enemy
\* horizontally overlaps is never skipped by the test of lines 326 and 341.
C18_NoOverlapSkipped ==
    /\ \A m \in {before.mario, game.mario} :
        \A i \in MarioTouches(m) : ~MarioSkips(m, Platforms[i])
    /\ \A g \in {before, game} :
        \A j \in 1..Len(g.level_enemies) :
            \A i \in EnemyTouches(g.level_enemies[j]) :
                ~EnemySkips(g.level_enemies[j], Platforms[i])

\* Mario overlaps the top stair block, which the filter keeps while it skips
\* the ground row further than 150 px away both ways; the enemy at the same
\* place is over platforms the filter keeps while it skips others
C18_Witness ==
    /\ pc = "draw"
    /\ MarioTouches(before.mario) # {}
    /\ \A i \in MarioTouches(before.mario) : ~MarioSkips(before.mario, Platforms[i])
    /\ \E i \in 1..NumPlatforms : MarioSkips(before.mario, Platforms[i])
    /\ EnemyTouches(before.level_enemies[1]) # {}
    /\ \E i \in 1..NumPlatforms : EnemySkips(before.level_enemies[1], Platforms[i])

\* C19: after every update() (and before the first) the HUD is hidden iff
\* level_complete or game_over is set, the victory screen is visible iff
\* level_complete is set, and the game-over screen is visible iff game_over
\* is set.
C19_OverlaysFollowFlags ==
    /\ game.hud_hidden <=> (game.level_complete \/ game.game_over)
    /\ ~game.victory_hidden <=> game.level_complete
    /\ ~game.gameover_hidden <=> game.game_over

\* this update() completed the level: the victory screen has come up, the
\* HUD has gone and the game-over screen stays away
C19_Witness ==
    /\ Played
    /\ ~before.level_complete /\ game.level_complete
    /\ ~before.hud_hidden /\ game.hud_hidden
    /\ before.victory_hidden /\ ~game.victory_hidden
    /\ game.gameover_hidden

\* C20 as stated: with audio enabled and the clips loaded, the update() that
\* sets game_over starts the 'gameover' clip, and the update() that sets
\* level_complete starts the 'world_clear' clip.
C20_CueAlwaysStarts ==
    (Played /\ audio.audio_enabled /\ audio.sounds = SOUNDS) =>
        /\ (~before.game_over /\ game.game_over) =>
            \E i \in 1..Len(started) : started[i] = "gameover"
        /\ (~before.level_complete /\ game.level_complete) =>
            \E i \in 1..Len(started) : started[i] = "world_clear"

\* this update() completed the level in the frame in which Mario took off:
\* 'jump' was started, 'world_clear' was requested after it and dropped by
\* the rate limit, and the victory screen came up over the jump clip
C20_Witness ==
    /\ Played
    /\ audio.audio_enabled /\ audio.sounds = SOUNDS
    /\ ~before.level_complete /\ game.level_complete
    /\ SoundRequests(before, inp) = <<"jump", "world_clear">>
    /\ started = <<"jump">>
    /\ audio.current = "jump"

\* ------------------------------------------------------------------------
\* C21: an error raised by the accelerometer read of a frame is caught:
\* tilt_value keeps the value of the previous frame and run() is still in its
\* frame loop
\* ------------------------------------------------------------------------
SensorRaised == pc = "raised"

C21_ReadErrorCaught ==
    SensorRaised => /\ game.imu.tilt_value = before.imu.tilt_value
                    /\ pc \in {"loop", "update", "draw"}

\* the read of a frame in which Mario was running to the right has raised
C21_Witness ==
    /\ SensorRaised
    /\ before.imu.tilt_value > 0
    /\ game.mario = before.mario
    /\ ~game.game_over

\* ------------------------------------------------------------------------
\* C22: the sensor is looked for at 0x69 and then at 0x68; with no sensor at
\* either address the error leaves the construction and no update() or draw()
\* is ever executed; with a sensor at either address the construction goes on
\* to the calibration
\* ------------------------------------------------------------------------
Constructed == pc \in {"loop", "update", "draw"}

C22_SensorProbe ==
    /\ pc = "probe68" => ADDRESS_FIRST \notin player.bus
    /\ pc = "raised" <=> (player.bus = {} /\ pc \notin {"probe69", "probe68"})
    /\ (pc = "calibrate" \/ Constructed) => player.bus # {}
    /\ player.bus = {} => /\ ~Constructed
                         /\ game = NewGame
                         /\ tick = 0
                         /\ sprites \in {NewSprites(loaded) : loaded \in BOOLEAN}

\* no sensor at either address: the construction has raised
C22_Witness == pc = "raised" /\ player.bus = {}

\* the sensor was found at the second address only and frames are running
C22_WitnessSecond == player.bus = {ADDRESS_SECOND} /\ pc = "draw" /\ tick = 2

\* ------------------------------------------------------------------------
\* C23: a buffered press lasts at most 3 iterations of the frame loop: after
\* an update() call IMUController.jump is true only if the last press edge was
\* detected in this iteration or one of the two before it, and only then does
\* Mario.update start a jump, whatever the session was doing in between
\* ------------------------------------------------------------------------
JumpStarted == Playing(before) /\ game.imu.jump /\ before.mario.on_ground

C23_BufferLastsThreeFrames ==
    Updated => /\ game.imu.jump => edge_iter <= JUMP_BUFFER_FRAMES - 1
               /\ JumpStarted => edge_iter <= JUMP_BUFFER_FRAMES - 1

\* a press detected during the level-complete countdown, three or more
\* iterations ago, starts a jump in a first frame of the next level instance
C23_Witness ==
    /\ Updated
    /\ JumpStarted
    /\ edge_iter >= JUMP_BUFFER_FRAMES
    /\ tick <= 2
    /\ player.tap = 0
    /\ game.mario.vel_y < 0
    /\ ~game.mario.on_ground

\* ------------------------------------------------------------------------
\* C24: an update() call that finds level_complete set and victory_timer > 0
\* changes nothing but victory_timer (and, when that reaches 0, what
\* reset_level() resets): Mario, the enemies, the coins, the camera, score,
\* coins and lives are as before, and the IMUController is as before, neither
\* the button nor the sensor having been read
\* ------------------------------------------------------------------------
InCountdown == Updated /\ before.level_complete /\ before.victory_timer > 0

C24_CountdownFreezesSession ==
    InCountdown =>
        /\ game.imu = before.imu
        /\ game.victory_timer \in {before.victory_timer, before.victory_timer - 1}
        /\ game.victory_timer > 0 =>
               [game EXCEPT !.victory_timer = before.victory_timer] = before
        /\ game.victory_timer = 0 =>
               /\ ~game.level_complete
               /\ game.mario = NewMario(MARIO_START_X, GROUND_Y)
               /\ game.camera = NewCamera
               /\ game.score = 0 /\ game.coins = 0 /\ game.lives = START_LIVES

\* half-way through the countdown, with the button held down at the flag
C24_Witness ==
    /\ InCountdown
    /\ before.victory_timer = 90
    /\ game.victory_timer = 89
    /\ game.camera.x # game.camera.target_x
    /\ ButtonDown

\* ------------------------------------------------------------------------
\* C25 as stated: once game_over is true neither update() nor draw() is
\* called again, run() holds for exactly 150 iterations, stops the audio and
\* returns, and it returns only with game_over true
\* ------------------------------------------------------------------------
RunEnds ==
    /\ pc \in {"hold", "done"} => game.game_over /\ hold_i \in 0..HOLD_FRAMES
    /\ pc = "done" => hold_i = HOLD_FRAMES /\ audio.current = "none"

C25_NoFrameAfterGameOver ==
    /\ game.game_over => pc \notin {"update", "draw"}
    /\ RunEnds

\* the steps run() still has to take once game_over is true
StepsLeft ==
    CASE pc = "done" -> 0
      [] pc = "hold" -> 1 + HOLD_FRAMES - hold_i
      [] pc = "loop" -> 2 + HOLD_FRAMES
      [] OTHER -> 3 + HOLD_FRAMES

\* C25 amended: once game_over is true, run() makes the draw() call of the
\* iteration whose update() set it and no other update() or draw() call,
\* leaves the frame loop, holds for exactly 150 iterations, stops the audio
\* and returns (after that draw() call the next step of the end of run() is
\* always possible until it has returned, and each step leaves one step less
\* to take), and it returns only with game_over true
C25_RunEndsAfterGameOver ==
    /\ [](game.game_over => pc # "update")
    /\ [](game.game_over /\ pc = "draw" => ~before.game_over)
    /\ []RunEnds
    /\ [](game.game_over /\ pc \notin {"draw", "done"} => ENABLED (RunExit \/ Hold \/ Finish))
    /\ [][game.game_over => StepsLeft' = StepsLeft - 1 /\ game' = game]_vars

\* run() has returned, the last draw() having shown the session at game over
C25_Witness ==
    /\ pc = "done"
    /\ game.game_over
    /\ ~before.game_over
    /\ hold_i = HOLD_FRAMES
    /\ sprites = DrawSprites(sprites, game, level_platforms)

\* ------------------------------------------------------------------------
\* C26: Enemy.update returns True exactly when the enemy is alive and its y
\* after the move (lines 316-317) is more than DISPLAY_HEIGHT + 50; it returns
\* False otherwise, and it changes no field of a dead enemy
\* ------------------------------------------------------------------------
EnemyUpdated == Updated /\ before.level_enemies # <<>>

EnemyBefore == before.level_enemies[1]

EnemyReturned == game.level_enemies = <<>>

C26_EnemyUpdateReturn ==
    EnemyUpdated =>
        /\ EnemyReturned <=> /\ EnemyBefore.alive
                             /\ EnemyBefore.y + EnemyBefore.vel_y + GRAVITY
                                    > DISPLAY_HEIGHT + Px(50)
        /\ ~EnemyBefore.alive => game.level_enemies = <<EnemyBefore>>

\* the first enemy has fallen past the left end of the ground row and its
\* update has returned True
C26_Witness ==
    /\ EnemyUpdated
    /\ EnemyReturned
    /\ EnemyBefore.alive
    /\ EnemyBefore.x < -ENEMY_WIDTH

\* the update of a stomped enemy
C26_WitnessDead == EnemyUpdated /\ ~EnemyBefore.alive /\ ~EnemyReturned

\* ------------------------------------------------------------------------
\* C27: when a live enemy, after its move, horizontally overlaps a nearby
\* platform with its bottom edge below the bottom edge of that platform,
\* vel_x is negated, once, and x is set flush to such a platform, on the side
\* the enemy came from, so that the enemy no longer overlaps it; with no such
\* platform the enemy keeps its direction and its moved x; |vel_x| stays 1
\* ------------------------------------------------------------------------
\* the platforms that the enemy, moved by lines 315-317, is against
WallsAfterMove(e) ==
    LET x == e.x + e.vel_x
        y == e.y + e.vel_y + GRAVITY
    IN  {i \in 1..NumPlatforms :
            /\ Abs(Platforms[i].x - x) <= Px(100)
            /\ x + ENEMY_WIDTH > Platforms[i].x
            /\ x < Platforms[i].x + Platforms[i].width
            /\ y + ENEMY_HEIGHT > Platforms[i].y + Platforms[i].height}

FlushTo(e, p) == IF e.vel_x > 0 THEN p.x - ENEMY_WIDTH ELSE p.x + p.width

C27_WallBump ==
    EnemyUpdated /\ EnemyBefore.alive /\ ~EnemyReturned =>
        LET e == EnemyBefore
            a == game.level_enemies[1]
            walls == WallsAfterMove(e)
        IN  /\ walls # {} =>
                /\ a.vel_x = -e.vel_x
                /\ \E i \in walls :
                    /\ a.x = FlushTo(e, Platforms[i])
                    /\ ~EnemyOverX(a, Platforms[i])
            /\ walls = {} => a.vel_x = e.vel_x /\ a.x = e.x + e.vel_x
            /\ Abs(a.vel_x) = Px(1)

\* an enemy walking right on the ground has been turned back by a block
\* above it, while it was against two blocks of the row
C27_Witness ==
    /\ EnemyUpdated
    /\ EnemyBefore.alive
    /\ ~EnemyReturned
    /\ EnemyBefore.vel_x > 0
    /\ game.level_enemies[1].vel_x < 0
    /\ Cardinality(WallsAfterMove(EnemyBefore)) = 2

\* ------------------------------------------------------------------------
\* C28 as stated: Camera.update leaves x at x + 0.2 * (target_x - x), between
\* the old x and the target and never past the target, and with Mario's x held
\* fixed the distance to the target strictly decreases on every update while
\* it is not 0
\* ------------------------------------------------------------------------
CameraOld == before.camera.x

CameraNew == game.camera.x

CameraTarget == game.camera.target_x

\* x + 0.2 * (target_x - x), to the nearest thousandth of a pixel
SmoothedStep == Abs(5 * (CameraNew - CameraOld) - (CameraTarget - CameraOld)) <= 2

NeverPastTarget == Min(CameraOld, CameraTarget) <= CameraNew /\ CameraNew <= Max(CameraOld, CameraTarget)

RESOLUTION_REACH == First({d \in 1..10 : RoundDiv(d * 2, 10) # 0})

C29_SpriteFrameRule ==
    Played =>
        /\ ~game.mario.on_ground => game.mario.sprite_frame = 2
        /\ game.mario.on_ground /\ game.imu.tilt_value = 0 => game.mario.sprite_frame = 0
        /\ game.mario.on_ground /\ game.imu.tilt_value # 0 => game.mario.sprite_frame \in {0, 1}

\* a running Mario who landed in an earlier frame and has been on the ground
\* since still shows the jump sprite
C29_Witness ==
    /\ Played
    /\ before.mario.on_ground
    /\ before.mario.sprite_frame = 2
    /\ game.mario.on_ground
    /\ game.mario.sprite_frame = 2
    /\ game.imu.tilt_value # 0

\* Mario has walked off the edge of a platform and falls with a walking sprite
C29_WitnessStepOff ==
    /\ Played
    /\ before.mario.on_ground
    /\ ~game.mario.on_ground
    /\ game.mario.vel_y >= 0
    /\ game.mario.sprite_frame # 2

\* ------------------------------------------------------------------------
\* C30: play() never raises; with audio disabled or the clip not loaded it
\* returns leaving the manager as it found it, and when opening the file,
\* reading it as a wave or playing it fails, the call returns with
\* current_file and current_wave both None
\* ------------------------------------------------------------------------
C30_PlayNeverRaises ==
    Updated =>
        /\ audio \in [audio_enabled : BOOLEAN, sounds : SUBSET SOUNDS,
                     current : SOUNDS \cup {"none"}, current_file : SOUNDS \cup {"none"},
                     current_wave : SOUNDS \cup {"none"},
                     since : 0..RATE_LIMIT_MS, play_count : 0..MaxAudioCalls,
                     open_files : 0..MaxAudioCalls]
        /\ (~inp.audio.audio_enabled \/ inp.sound_name \notin inp.audio.sounds) =>
               audio = inp.audio
        /\ (AudioAccepts(inp.audio, inp.sound_name) /\ inp.outcome.fails # "none") =>
               /\ audio.current_file = "none"
               /\ audio.current_wave = "none"
               /\ audio.play_count = inp.audio.play_count + 1
        /\ (AudioAccepts(inp.audio, inp.sound_name) /\ inp.outcome.fails = "none") =>
               /\ audio.current_file = inp.sound_name
               /\ audio.current_wave = inp.sound_name

\* a clip was being played when the next play() call could open the file but
\* not read it as a wave
C30_Witness ==
    /\ Updated
    /\ inp.audio.current_file = "coin"
    /\ inp.sound_name = "jump"
    /\ inp.outcome.fails = "wave"
    /\ audio.current_file = "none"
    /\ audio.play_count = 2

\* a clip that was not loaded is asked for while another is being played
C30_WitnessMissing ==
    /\ Updated
    /\ inp.sound_name = "stomp"
    /\ inp.audio.current = "coin"
    /\ audio = inp.audio

C34_LivesAccounting ==
    /\ game.lives \in 0..START_LIVES
    /\ Updated => before.lives - game.lives <= 1
    /\ game.game_over <=> game.lives = 0

\* the update in which an enemy took the last life
C34_Witness ==
    /\ Updated
    /\ before.lives = 1
    /\ ~before.game_over
    /\ game.lives = 0
    /\ game.game_over
    /\ game.mario.invincible = INVINCIBLE_FRAMES

\* ------------------------------------------------------------------------
\* C35: after every update(), coins is the number of collected coins of the
\* current level and score is 200 a coin plus 100 a stomped enemy of the
\* current level; hence coins <= 8 and score <= 2300
\* ------------------------------------------------------------------------
C35_ScoreAccounting ==
    Updated =>
        /\ game.coins = NumCollected(game)
        /\ game.score = COIN_SCORE * game.coins + STOMP_SCORE * Cardinality(DeadIds(game))
        /\ game.coins <= Len(LevelCoins)
        /\ Len(LevelCoins) = 8
        /\ game.score <= COIN_SCORE * Len(LevelCoins) + STOMP_SCORE * Len(LevelEnemies)
        /\ COIN_SCORE * Len(LevelCoins) + STOMP_SCORE * Len(LevelEnemies) = 2300

\* an update after which the score holds both coins and a stomp
C35_Witness ==
    /\ Updated
    /\ game.coins >= 2
    /\ DeadIds(game) # {}
    /\ game.score = COIN_SCORE * game.coins + STOMP_SCORE * Cardinality(DeadIds(game))

\* the update after the victory countdown: a new level, nothing collected
C35_WitnessReset ==
    /\ Updated
    /\ ~SameLevel
    /\ before.score > 0
    /\ game.score = 0
    /\ NumCollected(game) = 0

\* ------------------------------------------------------------------------
\* C37: once Mario has landed on top of a platform, with no jump requested
\* and while he stays horizontally over it, on_ground is true and
\* y == platform.y - 16 after every subsequent Mario.update
\* ------------------------------------------------------------------------
\* Mario m is horizontally over platform p
OverPlatform(m, p) == m.x + MARIO_WIDTH > p.x /\ m.x < p.x + p.width

\* the platforms on whose top Mario rested before the call (landed: on_ground
\* set, at rest, his feet on the platform's top) and over which he still is
\* after it
RestedOn ==
    {i \in 1..NumPlatforms :
        /\ before.mario.on_ground
        /\ before.mario.vel_y = 0
        /\ before.mario.y = Platforms[i].y - MARIO_HEIGHT
        /\ OverPlatform(before.mario, Platforms[i])
        /\ OverPlatform(MarioMoved, Platforms[i])}

C37_RestsOnPlatform ==
    Played /\ ~Controls.imu.jump =>
        \A i \in RestedOn :
            /\ MarioMoved.on_ground
            /\ MarioMoved.y = Platforms[i].y - MARIO_HEIGHT

\* Mario stood on a platform above the ground row, no jump was requested, and
\* Mario.update left him where he was with on_ground cleared
C37_Witness ==
    /\ Played
    /\ ~Controls.imu.jump
    /\ \E i \in RestedOn :
        /\ Platforms[i].y < GROUND_Y
        /\ MarioMoved.y = Platforms[i].y - MARIO_HEIGHT
        /\ MarioMoved.vel_y = 0
        /\ ~MarioMoved.on_ground
        /\ game.mario.sprite_frame # 2

\* ------------------------------------------------------------------------
\* C36: a press edge detected during play while Mario rests on the ground or
\* on top of a platform starts a jump (vel_y from JUMP_STRENGTH,
\* jump_triggered true) in one of the next two update() calls, and starts no
\* second jump
\* ------------------------------------------------------------------------
\* Mario m rests: on_ground is set, or he stands still with his feet on the
\* top of a platform he is over
Resting(m) ==
    \/ m.on_ground
    \/ /\ m.vel_y = 0
       /\ \E i \in 1..NumPlatforms :
            m.y = Platforms[i].y - MARIO_HEIGHT /\ OverPlatform(m, Platforms[i])

\* the call was the update() of the playing iteration that detected a press
\* edge, the first of the two calls that follow the edge
EdgeFrame == Played /\ edge_iter = 0 /\ edge_age = 1

\* the call took the jump branch of Mario.update (lines 467-470)
StartsJump == Controls.imu.jump /\ before.mario.on_ground

\* after the call the press is still armed for the next one, which will be a
\* playing call and will find Mario on the ground
JumpsNextCall == Playing(game) /\ game.imu.jump_buffer /\ game.mario.on_ground

C36_PressStartsOneJump ==
    /\ EdgeFrame /\ Resting(before.mario) => StartsJump \/ JumpsNextCall
    /\ Played /\ edge_age \in {1, 2} => Controls.imu.jump
    /\ Played /\ StartsJump =>
        /\ MarioIntegrated.vel_y = JUMP_STRENGTH + GRAVITY
        /\ MarioIntegrated.jump_triggered
        /\ ~game.mario.on_ground
    /\ Played /\ edge_age >= JUMP_BUFFER_FRAMES => ~Controls.imu.jump

\* the press found Mario on a platform with on_ground cleared: the jump
\* started in the second call
C36_Witness ==
    /\ Played
    /\ edge_age = 2
    /\ StartsJump
    /\ before.mario.y < GROUND_Y
    /\ game.mario.jump_triggered

\* the press found Mario on the ground: the jump started in the first call
C36_WitnessFirst == EdgeFrame /\ StartsJump /\ before.mario.y = GROUND_Y

\* the press found Mario standing near the edge of the pipe with on_ground
\* cleared, and he stepped off it in the same call: no jump in that call, and
\* none in the next, which finds him in the air
C36_WitnessLost ==
    /\ EdgeFrame
    /\ Resting(before.mario)
    /\ ~before.mario.on_ground
    /\ ~StartsJump
    /\ Playing(game)
    /\ game.imu.jump_buffer
    /\ ~game.mario.on_ground
    /\ ~game.mario.jump_triggered

\* the same on the ground row: Mario came down onto its top (y = 104, above
\* the ground plane at GROUND_Y = 105) and the next call cleared on_ground
C37_WitnessGroundRow ==
    /\ Played
    /\ ~Controls.imu.jump
    /\ before.mario.on_ground
    /\ before.mario.y = GROUND_Y - Px(1)
    /\ MarioMoved.y = before.mario.y
    /\ ~MarioMoved.on_ground

\* ------------------------------------------------------------------------
\* C38: for every camera offset in [0, 1960] at most 75 platforms of the
\* level intersect the window (camera.x - 64, camera.x + 304), and the
\* level's 7 enemies and 8 coins fit the pools of 10 and 20: draw() gives
\* every entity of the level that passes its test a sprite
\* ------------------------------------------------------------------------
\* the platforms of the level that intersect the window of camera offset cx
Intersecting(cx) ==
    {i \in 1..NumPlatforms :
        /\ Platforms[i].x + Platforms[i].width > cx - Px(64)
        /\ Platforms[i].x < cx + Px(304)}

C38_LevelFitsPools ==
    /\ game.camera.x \in 0..Px(1960)
    /\ Cardinality(Intersecting(game.camera.x)) <= PLATFORM_POOL
    /\ PLATFORM_POOL = 75
    /\ Len(LevelEnemies) = 7
    /\ Len(game.level_enemies) <= Len(LevelEnemies)
    /\ Len(LevelEnemies) <= ENEMY_POOL
    /\ ENEMY_POOL = 10
    /\ Len(LevelCoins) = 8
    /\ Len(game.level_coins) = Len(LevelCoins)
    /\ Len(LevelCoins) <= COIN_POOL
    /\ COIN_POOL = 20
    /\ Drawn =>
        /\ sprites.used_platform_sprites = Cardinality(Intersecting(game.camera.x))
        /\ sprites.used_enemy_sprites =
                Cardinality(ShownEnemies(game.level_enemies, game.camera.x))
        /\ sprites.used_coin_sprites =
                Cardinality(ShownCoins(game.level_coins, game.camera.x))

\* the fullest window of the level (40 platforms: the ground row and the
\* row of bricks at x = 400 to 544), drawn in full
C38_Witness ==
    /\ Drawn
    /\ Cardinality(Intersecting(game.camera.x)) = 40
    /\ sprites.used_platform_sprites = Cardinality(Intersecting(game.camera.x))
    /\ ~sprites.platform_sprites[sprites.used_platform_sprites].hidden

\* ------------------------------------------------------------------------
\* C39: after any sequence of play(), stop() and cleanup calls at most one
\* sound file handle is open: play() closes the previously opened file
\* before opening another; a rate-limited play() changes no state; after
\* stop() current_file and current_wave are None
\* ------------------------------------------------------------------------
RateLimited ==
    /\ Updated
    /\ inp.audio.audio_enabled
    /\ inp.sound_name \in inp.audio.sounds
    /\ inp.audio.since < RATE_LIMIT_MS

C39_OneFileOpen ==
    /\ audio.open_files <= 1
    /\ audio.open_files = IF audio.current_file = "none" THEN 0 ELSE 1
    /\ RateLimited => audio = inp.audio
    /\ pc = "stopped" => audio.current_file = "none" /\ audio.current_wave = "none"

\* play() found a clip's file open and the DAC raised in its cleanup: the
\* handler dropped the reference to the file without closing it, and the
\* call then opened the next file
C39_Witness ==
    /\ Updated
    /\ inp.audio.current_file = "jump"
    /\ inp.audio.open_files = 1
    /\ inp.sound_name = "coin"
    /\ inp.outcome = [fails |-> "none", stop_fails |-> TRUE]
    /\ audio.current_file = "coin"
    /\ audio.open_files = 2

\* a play() call inside the rate limit while a clip's file is open
C39_WitnessRateLimited == RateLimited /\ inp.audio.current_file = "coin" /\ audio = inp.audio

\* ------------------------------------------------------------------------
\* C31  Donkey Kong game: the first barrel hit on the player does not end
\* the game.  The game starts with three lives; every barrel hit takes one,
\* and game_over is true exactly when the lives are used up (lives <= 0),
\* which is the frame of the hit that takes the last life.
\* ------------------------------------------------------------------------
C31_GameOverAtZeroLives ==
    /\ kong.lives <= KONG_LIVES
    /\ kong.game_over <=> kong.lives <= 0

\* C31 as stated: a single life loss ends the game, game_over is true from
\* the frame of the first barrel hit on
C31_SingleLifeLoss == kong.lives < KONG_LIVES => kong.game_over

\* the player was hit once and the game goes on
C31_WitnessFirstHit == kong.lives = KONG_LIVES - 1 /\ ~kong.game_over /\ tick > 0

\* the hit that took the last life ended the game
C31_Witness == kong.game_over /\ kong.lives <= 0 /\ kong.score = 0 /\ tick > 0

\* ------------------------------------------------------------------------
\* C32  Cooperative blink demo: in every interleaving of the five blink
\* tasks, each task writes only its own pixel, a task that has returned has
\* performed exactly its count on/off cycles (and none performs more), and
\* every task returns; main() reaches "Finished" only after all five tasks
\* have returned, every pixel is off at that point, and main() does reach
\* "Finished".
\* ------------------------------------------------------------------------
OwnPixelOnly == \A i \in 1..NumTasks : blink.tasks[i].wrote \subseteq {i - 1}

ExactCycles ==
    \A i \in 1..NumTasks :
        /\ blink.tasks[i].cycles <= BlinkTasks[i].count
        /\ blink.tasks[i].pc = "done" => blink.tasks[i].cycles = BlinkTasks[i].count

FinishedLast ==
    blink.main = "finished" =>
        /\ BlinkPending(blink) = {}
        /\ \A p \in 1..num_pixels : blink.pixels[p] = "off"

C32_BlinkTasks ==
    /\ [](OwnPixelOnly /\ ExactCycles /\ FinishedLast)
    /\ \A i \in 1..NumTasks : <>(blink.tasks[i].pc = "done")
    /\ <>(blink.main = "finished")

\* main() has printed "Finished": the five tasks wrote their pixels and made
\* 15, 10, 10, 10 and 15 cycles
C32_Witness ==
    /\ blink.main = "finished"
    /\ \A i \in 1..NumTasks :
        blink.tasks[i].wrote = {i - 1} /\ blink.tasks[i].cycles = BlinkTasks[i].count

\* two tasks have lit their pixels and both are in their sleeps
C32_WitnessInterleaved ==
    \E i, j \in 1..NumTasks :
        /\ i # j
        /\ blink.tasks[i].pc = "on" /\ blink.tasks[j].pc = "on"
        /\ blink.pixels[i] # "off" /\ blink.pixels[j] # "off"

====
